---------------------------- MODULE Spec2Model ----------------------------
(***************************************************************************)
(* Karakeep MCP adapter: the request normalisation, pagination, response   *)
(* shaping and error classification layer between the two client surfaces  *)
(* (structured tool calls, HTTP/OpenAPI) and the upstream bookmark API.    *)
(*                                                                         *)
(* JavaScript strings are sequences of one-character strings.  The values  *)
(* undefined and null are the one-element sequences UNDEF and NULL, which   *)
(* no character sequence equals.  Fixed words of the program (content      *)
(* types, default messages, template text) are one-element sequences too.  *)
(***************************************************************************)
EXTENDS Integers, Sequences, FiniteSets, TLC

VARIABLES
    pc,             \* position of the request: idle, received, awaiting, done
    surface,        \* "tool" (structured tool call) or "http"
    request,        \* the arguments as the caller sent them
    input,          \* the validated input handed to the facade
    upstreamCalls,  \* every call issued to the upstream API, in order
    response,       \* what the upstream client returned
    outcome,        \* what the facade returned or threw
    reply,          \* what the surface showed the caller
    flights,        \* the facade calls in flight side by side, by caller
    deleteQueue,                \* the delete tasks waiting, oldest first
    deleteQueueProcessing,      \* a delete has been handed to the processor
    deleteQueueProcessor,       \* the hook whose mutation deletes, or none
    currentDeleteQueueState,    \* the queue state published to the hooks
    currentProcessingDedupeKey, \* the dedupe key of the delete in flight
    inFlight,       \* the processor invocations that have not finished
    scheduled,      \* the queued microtasks that call processDeleteQueue
    hooks,          \* each useDeleteBookmark instance: mounted, its refs
    tasks,          \* every enqueueDeleteTask call so far and what became of it
    handed,         \* the tasks handed to the processor, in order
    bulkInvalidations   \* the bulk invalidations issued so far, and whether
                        \* a delete has succeeded since the last of them

\* the state of the shared delete queue and of the hooks that use it
queueVars ==
    <<deleteQueue, deleteQueueProcessing, deleteQueueProcessor,
      currentDeleteQueueState, currentProcessingDedupeKey, inFlight,
      scheduled, hooks, tasks, handed, bulkInvalidations>>

\* the state of the MCP server's request handling
serverVars ==
    <<pc, surface, request, input, upstreamCalls, response, outcome, reply,
      flights>>

vars ==
    <<pc, surface, request, input, upstreamCalls, response, outcome, reply,
      flights, deleteQueue, deleteQueueProcessing, deleteQueueProcessor,
      currentDeleteQueueState, currentProcessingDedupeKey, inFlight,
      scheduled, hooks, tasks, handed, bulkInvalidations>>

---------------------------------------------------------------------------
(* Bounds of the model.                                                    *)

\* Longest upstream search page explored for deduplication.
MaxPage == 5
\* Longest free text explored character by character for escaping.
MaxStr == 2
\* Most whitespace characters put on each side of a submitted query.
MaxPad == 1
\* the longest upstream page explored with two calls in flight
MaxFlightPage == 2

---------------------------------------------------------------------------
(* JavaScript values.                                                      *)

UNDEF == <<"undefined">>
NULL == <<"null">>

\* a value that is null or undefined
Nullish(v) == v = UNDEF \/ v = NULL

\* a ?? b
Coalesce(a, b) == IF Nullish(a) THEN b ELSE a

\* truthiness of a string | null | undefined
Truthy(v) == ~Nullish(v) /\ v # <<>>

Whitespace == {" ", "\t", "\n"}

RECURSIVE TrimStart(_)
TrimStart(s) ==
    IF s # <<>> /\ Head(s) \in Whitespace THEN TrimStart(Tail(s)) ELSE s

RECURSIVE TrimEnd(_)
TrimEnd(s) ==
    IF s # <<>> /\ s[Len(s)] \in Whitespace
    THEN TrimEnd(SubSeq(s, 1, Len(s) - 1))
    ELSE s

\* String.prototype.trim
Trim(s) == TrimEnd(TrimStart(s))

UpperCase ==
    <<"A", "B", "C", "D", "E", "F", "G", "H", "I", "J", "K", "L", "M",
      "N", "O", "P", "Q", "R", "S", "T", "U", "V", "W", "X", "Y", "Z">>

LowerCase ==
    <<"a", "b", "c", "d", "e", "f", "g", "h", "i", "j", "k", "l", "m",
      "n", "o", "p", "q", "r", "s", "t", "u", "v", "w", "x", "y", "z">>

ToLowerChar(c) ==
    IF \E i \in DOMAIN UpperCase : UpperCase[i] = c
    THEN LowerCase[CHOOSE i \in DOMAIN UpperCase : UpperCase[i] = c]
    ELSE c

\* String.prototype.toLowerCase
ToLowerCase(s) == [i \in 1..Len(s) |-> ToLowerChar(s[i])]

\* Array.prototype.join on a sequence of sequences
RECURSIVE Join(_, _)
Join(parts, sep) ==
    IF parts = <<>> THEN <<>>
    ELSE IF Len(parts) = 1 THEN parts[1]
    ELSE parts[1] \o sep \o Join(Tail(parts), sep)

\* every sequence over S of length at most n
SeqsUpTo(S, n) == UNION {[1..k -> S] : k \in 0..n}

\* k spaces
Spaces(k) == [i \in 1..k |-> " "]

---------------------------------------------------------------------------
(* Limits.  A JSON number n + h/2 is the pair <<n, h>>, h in {0, 1}, so    *)
(* that a non-integer limit can be submitted; an omitted limit is <<>>.    *)

NoLimit == <<>>
Num(n) == <<n, 0>>
NumAndHalf(n) == <<n, 1>>

\* z.number().int()
IsInt(l) == l[2] = 0
\* z.number().positive()
IsPositive(l) == l[1] > 0 \/ (l[1] = 0 /\ l[2] = 1)

MaxLimit == 100
DefaultLimit == 100
ToolDefaultLimit == 100

\* z.number().max(100)
AtMostMax(l) == l[1] < MaxLimit \/ (l[1] = MaxLimit /\ l[2] = 0)

---------------------------------------------------------------------------
(* Upstream records and the response shaper.                               *)

\* KarakeepAPISchemas["Bookmark"].content: every variant's fields, UNDEF
\* where the variant has none
Content(type, title, url, sourceUrl, assetId, assetType) ==
    [type |-> type, title |-> title, url |-> url,
     description |-> UNDEF, author |-> UNDEF, publisher |-> UNDEF,
     sourceUrl |-> sourceUrl, assetId |-> assetId, assetType |-> assetType,
     htmlContent |-> UNDEF, text |-> UNDEF, content |-> UNDEF]

\* KarakeepAPISchemas["Bookmark"]
Bookmark(id, title, summary, note, tags, content) ==
    [id |-> id, createdAt |-> <<"2024-01-02T03:04:05.000Z">>,
     modifiedAt |-> NULL, title |-> title, summary |-> summary,
     note |-> note, archived |-> FALSE, favourited |-> FALSE,
     taggingStatus |-> <<"success">>, summarizationStatus |-> NULL,
     tags |-> [i \in 1..Len(tags) |-> [name |-> tags[i]]],
     content |-> content]

ContentTypes == {<<"link">>, <<"text">>, <<"asset">>}

toBookmarkSummary(bookmark) ==
    LET type == bookmark.content.type
        base ==
            [id |-> bookmark.id,
             createdAt |-> bookmark.createdAt,
             modifiedAt |-> bookmark.modifiedAt,
             title |-> Coalesce(bookmark.title,
                          IF type = <<"link">>
                          THEN Coalesce(bookmark.content.title, NULL)
                          ELSE NULL),
             summary |-> bookmark.summary,
             note |-> bookmark.note,
             archived |-> bookmark.archived,
             favourited |-> bookmark.favourited,
             taggingStatus |-> bookmark.taggingStatus,
             summarizationStatus |-> bookmark.summarizationStatus,
             type |-> Coalesce(type, <<"unknown">>),
             tags |-> [i \in 1..Len(bookmark.tags) |-> bookmark.tags[i].name],
             url |-> UNDEF, description |-> UNDEF, author |-> UNDEF,
             publisher |-> UNDEF, sourceUrl |-> UNDEF,
             assetId |-> UNDEF, assetType |-> UNDEF]
    IN  CASE type = <<"link">> ->
                [base EXCEPT
                    !.url = bookmark.content.url,
                    !.description = Coalesce(bookmark.content.description, NULL),
                    !.author = Coalesce(bookmark.content.author, NULL),
                    !.publisher = Coalesce(bookmark.content.publisher, NULL)]
          [] type = <<"text">> ->
                [base EXCEPT
                    !.sourceUrl = Coalesce(bookmark.content.sourceUrl, NULL)]
          [] type = <<"asset">> ->
                [base EXCEPT
                    !.assetId = bookmark.content.assetId,
                    !.assetType = bookmark.content.assetType,
                    !.sourceUrl = Coalesce(bookmark.content.sourceUrl, NULL)]
          [] OTHER -> base

\* the grave accent, which a string literal of this language cannot hold
GRAVE == "GRAVE"

MARKDOWN_ESCAPE_CHARACTERS ==
    {"\\", GRAVE, "*", "_", "{", "}", "[", "]", "(", ")",
     "#", "+", ".", "!", "|", ">", "~", "-"}

\* the loop over the characters, each one escaped or copied; the two halves
\* of a long value are escaped apart and joined in order
RECURSIVE escapeMarkdownText(_)
escapeMarkdownText(value) ==
    IF value = <<>> THEN <<>>
    ELSE IF Len(value) = 1
    THEN (IF value[1] \in MARKDOWN_ESCAPE_CHARACTERS
          THEN <<"\\", value[1]>>
          ELSE value)
    ELSE LET half == Len(value) \div 2
         IN  escapeMarkdownText(SubSeq(value, 1, half))
             \o escapeMarkdownText(SubSeq(value, half + 1, Len(value)))

escapeOptionalMarkdownText(value) ==
    IF Nullish(value) THEN value ELSE escapeMarkdownText(value)

escapeBookmarkSummaryMarkdown(summary) ==
    [summary EXCEPT
        !.title = escapeOptionalMarkdownText(summary.title),
        !.summary = escapeOptionalMarkdownText(summary.summary),
        !.note = escapeOptionalMarkdownText(summary.note),
        !.taggingStatus = escapeOptionalMarkdownText(summary.taggingStatus),
        !.summarizationStatus =
            escapeOptionalMarkdownText(summary.summarizationStatus),
        !.url = escapeOptionalMarkdownText(summary.url),
        !.description = escapeOptionalMarkdownText(summary.description),
        !.author = escapeOptionalMarkdownText(summary.author),
        !.publisher = escapeOptionalMarkdownText(summary.publisher),
        !.sourceUrl = escapeOptionalMarkdownText(summary.sourceUrl),
        !.assetId = escapeOptionalMarkdownText(summary.assetId),
        !.assetType = escapeOptionalMarkdownText(summary.assetType),
        !.tags = [i \in 1..Len(summary.tags) |->
                    escapeMarkdownText(summary.tags[i])]]

(* The text rendering.  A rendered text is a sequence of segments; each    *)
(* segment holds its characters and records where they came from: the      *)
(* program's template, a bookmark field, the query, a cursor, a date or a  *)
(* number.  The string the program builds is the segments' characters in   *)
(* order; a template piece is kept as one element.                         *)

Seg(src, chars) == [src |-> src, chars |-> chars]
Lit(s) == Seg("template", <<s>>)

SummaryCap == 400
NoteCap == 200

\* the horizontal ellipsis U+2026, one character
ELLIPSIS == "ELLIPSIS"

truncateTextWithoutTrimEnd(value, maxLength) ==
    IF Len(value) <= maxLength THEN value
    ELSE LET keep == IF maxLength - 1 > 0 THEN maxLength - 1 ELSE 0
         IN  Append(SubSeq(value, 1, keep), ELLIPSIS)

truncateText(value, maxLength) ==
    IF Len(value) <= maxLength THEN value
    ELSE LET keep == IF maxLength - 1 > 0 THEN maxLength - 1 ELSE 0
         IN  Append(TrimEnd(SubSeq(value, 1, keep)), ELLIPSIS)

\* new Date(createdAt): the timestamps the model uses all parse; any other
\* text is an invalid date
IsoDate(createdAt) ==
    IF createdAt = <<"2024-01-02T03:04:05.000Z">>
    THEN <<"2024-01-02">>
    ELSE NULL

formatBookmarkLine(bookmark, index) ==
    LET createdAt == IsoDate(bookmark.createdAt)
        trimmedTitle ==
            IF Nullish(bookmark.title) THEN <<>> ELSE Trim(bookmark.title)
        title ==
            IF trimmedTitle # <<>>
            THEN Seg("bookmark", trimmedTitle)
            ELSE Lit("Untitled bookmark")
        headerLine ==
            <<Seg("number", <<ToString(index + 1)>>), Lit(". "), title>>
            \o (IF createdAt # NULL
                THEN <<Lit(" ("), Seg("date", createdAt), Lit(")")>>
                ELSE <<>>)
        summary ==
            IF Nullish(bookmark.summary) THEN <<>> ELSE Trim(bookmark.summary)
        note ==
            IF Nullish(bookmark.note) THEN <<>> ELSE Trim(bookmark.note)
        url == Coalesce(bookmark.url, bookmark.sourceUrl)
        tagSegs ==
            Join([i \in 1..Len(bookmark.tags) |->
                    <<Seg("bookmark", bookmark.tags[i])>>], <<Lit(", ")>>)
        parts ==
            <<headerLine>>
            \o (IF summary # <<>>
                THEN << <<Lit("   Summary: "),
                          Seg("bookmark", truncateText(summary, SummaryCap))>> >>
                ELSE <<>>)
            \o (IF note # <<>>
                THEN << <<Lit("   Note: "),
                          Seg("bookmark", truncateText(note, NoteCap))>> >>
                ELSE <<>>)
            \o (IF Truthy(url)
                THEN << <<Lit("   Link: "), Seg("bookmark", url)>> >>
                ELSE <<>>)
            \o (IF Len(bookmark.tags) > 0
                THEN << <<Lit("   Tags: ")>> \o tagSegs >>
                ELSE <<>>)
    IN  Join(parts, <<Lit("\n")>>)

formatBookmarkSearchResult(bookmarks, nextCursor, query) ==
    LET cursorLine ==
            <<Lit("- Next cursor: ")>>
            \o (IF Truthy(nextCursor)
                THEN <<Lit("'"), Seg("cursor", nextCursor), Lit("'")>>
                ELSE <<Lit("no more pages")>>)
            \o <<Lit(".")>>
        header ==
            <<Lit("Karakeep search-bookmarks tool response (not a user message):")>>
    IN  IF Len(bookmarks) = 0
        THEN LET message ==
                    IF Truthy(query)
                    THEN <<Lit("- No bookmarks matched the query \""),
                           Seg("query", query), Lit("\".")>>
                    ELSE <<Lit("- No bookmarks matched the current query.")>>
             IN  Join(<<header, message, cursorLine>>, <<Lit("\n")>>)
        ELSE LET found ==
                    <<Lit("- Found "), Seg("number", <<ToString(Len(bookmarks))>>),
                      Lit(IF Len(bookmarks) = 1 THEN " bookmark" ELSE " bookmarks"),
                      Lit(".")>>
                 summaryLines ==
                    <<header, found>>
                    \o (IF Truthy(query) /\ Len(Trim(query)) > 0
                        THEN << <<Lit("- Query: \""), Seg("query", query),
                                  Lit("\".")>> >>
                        ELSE <<>>)
                    \o <<cursorLine>>
                 formattedBookmarks ==
                    Join([i \in 1..Len(bookmarks) |->
                            formatBookmarkLine(bookmarks[i], i - 1)],
                         <<Lit("\n\n")>>)
             IN  Join(summaryLines, <<Lit("\n")>>)
                 \o <<Lit("\n\n")>> \o formattedBookmarks

---------------------------------------------------------------------------
(* The upstream client's responses and the error taxonomy.                 *)

\* res.data: undefined, null, or a payload (an object, hence truthy)
NoData == [kind |-> "undefined"]
NullData == [kind |-> "null"]
Data(v) == [kind |-> "value", value |-> v]

\* res.error: absent, a parsed JSON object with optional message and code,
\* or a body that did not parse as JSON (text, possibly empty)
NoError == [kind |-> "absent"]
ErrorObject(message, code) ==
    [kind |-> "object", message |-> message, code |-> code]
ErrorText(text) == [kind |-> "text", text |-> text]

\* a field of an error object that holds something other than a string
NONSTRING == <<"non-string">>

\* what the client returns: { data, error, response: { status } }
Response(data, error, status) ==
    [kind |-> "response", data |-> data, error |-> error, status |-> status]

\* !res.data
DataFalsy(res) == res.data.kind # "value"

\* the truthiness of res.error
ErrorTruthy(res) ==
    \/ res.error.kind = "object"
    \/ res.error.kind = "text" /\ res.error.text # <<>>

\* typeof v === "string" ? v : undefined
StringOrUndefined(v) == IF v = NONSTRING THEN UNDEF ELSE v

extractApiError(res) ==
    IF res.error.kind # "object"
    THEN [found |-> FALSE]
    ELSE [found |-> TRUE,
          message |-> StringOrUndefined(res.error.message),
          code |-> StringOrUndefined(res.error.code),
          raw |-> res.error]

\* options.status when the caller of the constructor gave none
NoStatus == <<>>
DefaultStatus == 500

\* new ServiceError(message, options)
ServiceErrorNoStatus(message, options) ==
    [kind |-> "ServiceError", message |-> message,
     status |-> DefaultStatus,
     code |-> options.code, details |-> options.details]

ServiceError(message, options) ==
    [kind |-> "ServiceError", message |-> message,
     status |-> IF options.status = NoStatus
                THEN DefaultStatus
                ELSE options.status[1],
     code |-> options.code, details |-> options.details]

\* the block each facade function runs on a failed response:
\*   const apiError = extractApiError(res);
\*   throw new ServiceError(apiError?.message ?? fallback,
\*     { code: apiError?.code, details: apiError?.raw ?? res, status });
ThrowServiceError(res, fallback, status) ==
    LET apiError == extractApiError(res)
    IN  ServiceError(
            IF apiError.found THEN Coalesce(apiError.message, fallback)
            ELSE fallback,
            [code |-> IF apiError.found THEN apiError.code ELSE UNDEF,
             details |-> IF apiError.found THEN apiError.raw ELSE res,
             status |-> <<status>>])

Returned(value) == [kind |-> "ok", value |-> value]

---------------------------------------------------------------------------
(* searchBookmarks.                                                        *)

BOOKMARKS == <<"b", "o", "o", "k", "m", "a", "r", "k", "s">>
WILDCARD == <<"*">>

SearchCursorNextOnly(in) == Coalesce(in.nextCursor, NULL)

SearchCursor(in) == Coalesce(in.nextCursor, Coalesce(in.cursor, NULL))
SearchNormalizedQuery(in) == ToLowerCase(Trim(in.query))
SearchEffectiveQueryUntrimmed(in) ==
    IF SearchNormalizedQuery(in) = BOOKMARKS THEN WILDCARD ELSE in.query

SearchEffectiveQuery(in) ==
    IF SearchNormalizedQuery(in) = BOOKMARKS THEN WILDCARD ELSE Trim(in.query)

\* karakeepClient.GET("/bookmarks/search", { params: { query } })
SearchUpstreamCall(in) ==
    [op |-> "search",
     q |-> SearchEffectiveQuery(in),
     limit |-> in.limit,
     includeContent |-> FALSE,
     cursor |-> Coalesce(SearchCursor(in), UNDEF)]

\* the loop over res.data.bookmarks.map(toBookmarkSummary)
RECURSIVE DedupLoop(_, _, _)
DedupLoop(rest, seenBookmarkIds, rawBookmarks) ==
    IF rest = <<>> THEN rawBookmarks
    ELSE IF Head(rest).id \in seenBookmarkIds
         THEN DedupLoop(Tail(rest), seenBookmarkIds, rawBookmarks)
         ELSE DedupLoop(Tail(rest), seenBookmarkIds \cup {Head(rest).id},
                        Append(rawBookmarks, Head(rest)))

DedupNone(summaries) == summaries

Dedup(summaries) == DedupLoop(summaries, {}, <<>>)

HasMoreIfTruthy(nextCursor) == Truthy(nextCursor)

HasMore(nextCursor) == nextCursor # NULL

EscapeNothing(rawBookmarks) == rawBookmarks

EscapeAll(rawBookmarks) ==
    [i \in 1..Len(rawBookmarks) |->
        escapeBookmarkSummaryMarkdown(rawBookmarks[i])]

\* res.data.bookmarks.map(toBookmarkSummary)
Summaries(res) ==
    [i \in 1..Len(res.data.value.bookmarks) |->
        toBookmarkSummary(res.data.value.bookmarks[i])]

PaginatedDataCountingItems(items, nextCursor, cursor, hasMore) ==
    [items |-> items, nextCursor |-> nextCursor, cursor |-> cursor,
     hasMore |-> Len(items) > 0]

\* { items, nextCursor, cursor, hasMore }
PaginatedData(items, nextCursor, cursor, hasMore) ==
    [items |-> items, nextCursor |-> nextCursor, cursor |-> cursor,
     hasMore |-> hasMore]

\* the result built from the deduplicated summaries
SearchResult(in, res, rawBookmarks) ==
    LET cursor == SearchCursor(in)
        effectiveQuery == SearchEffectiveQuery(in)
        page == res.data.value
        bookmarks == EscapeAll(rawBookmarks)
        nextCursor == Coalesce(page.nextCursor, NULL)
        hasMore == HasMore(nextCursor)
        paginatedData == PaginatedData(bookmarks, nextCursor, cursor, hasMore)
        rawPaginatedData ==
            PaginatedData(rawBookmarks, nextCursor, cursor, hasMore)
    IN  [bookmarks |-> bookmarks,
         items |-> bookmarks,
         results |-> bookmarks,
         nextCursor |-> nextCursor,
         cursor |-> cursor,
         hasMore |-> hasMore,
         data |-> paginatedData,
         raw |-> [bookmarks |-> rawBookmarks, items |-> rawBookmarks,
                  results |-> rawBookmarks, data |-> rawPaginatedData],
         text |-> formatBookmarkSearchResult(rawBookmarks, nextCursor,
                                             effectiveQuery),
         submittedQuery |-> in.query,
         normalizedQuery |-> SearchNormalizedQuery(in),
         effectiveQuery |-> effectiveQuery]

SearchSuccess(in, res) == SearchResult(in, res, Dedup(Summaries(res)))

SeenCarriedOver(seenByOthers) == seenByOthers

\* const seenBookmarkIds = new Set<string>(): a set of the call's own,
\* empty whatever other calls have seen
NewSeenBookmarkIds(seenByOthers) == {}

\* searchBookmarks from the upstream response on, run while other calls
\* are in flight
searchBookmarksAmong(in, res, seenByOthers) ==
    IF DataFalsy(res)
    THEN ThrowServiceError(res, <<"Failed to search bookmarks">>, 400)
    ELSE Returned(SearchResult(in, res,
            DedupLoop(Summaries(res), NewSeenBookmarkIds(seenByOthers),
                      <<>>)))

\* seenBookmarkIds when the loop has ended
SeenBookmarkIds(res, seenByOthers) ==
    NewSeenBookmarkIds(seenByOthers)
        \cup {res.data.value.bookmarks[i].id :
                i \in 1..Len(res.data.value.bookmarks)}

\* searchBookmarks from the upstream response on
searchBookmarks(in, res) ==
    IF DataFalsy(res)
    THEN ThrowServiceError(res, <<"Failed to search bookmarks">>, 400)
    ELSE Returned(SearchSuccess(in, res))

---------------------------------------------------------------------------
(* The other facade functions: the upstream call each issues, and what it  *)
(* returns or throws once the client has answered.                         *)

getBookmarkCall(in) ==
    [op |-> "get", bookmarkId |-> in.bookmarkId, includeContent |-> FALSE]

getBookmarkAsBadRequest(in, res) ==
    IF DataFalsy(res)
    THEN ThrowServiceError(res, <<"Failed to load bookmark">>, 400)
    ELSE Returned(toBookmarkSummary(res.data.value))

getBookmark(in, res) ==
    IF DataFalsy(res)
    THEN ThrowServiceError(res, <<"Failed to load bookmark">>, 404)
    ELSE Returned(toBookmarkSummary(res.data.value))

createBookmarkCall(in) ==
    IF in.type = <<"link">>
    THEN [op |-> "create", type |-> <<"link">>, url |-> in.content,
          text |-> UNDEF, title |-> in.title]
    ELSE [op |-> "create", type |-> <<"text">>, url |-> UNDEF,
          text |-> in.content, title |-> in.title]

createBookmark(in, res) ==
    IF DataFalsy(res)
    THEN ThrowServiceError(res, <<"Failed to create bookmark">>, 400)
    ELSE Returned(toBookmarkSummary(res.data.value))

getBookmarkContentCall(in) ==
    [op |-> "content", bookmarkId |-> in.bookmarkId, includeContent |-> TRUE]

\* turndownService.turndown: the HTML-to-markdown collaborator
Turndown(html) == <<"turndown(">> \o html \o <<")">>

getBookmarkContent(in, res) ==
    IF DataFalsy(res)
    THEN ThrowServiceError(res, <<"Failed to load bookmark content">>, 404)
    ELSE LET c == res.data.value.content
         IN  Returned(
                [format |-> <<"markdown">>,
                 content |->
                    CASE c.type = <<"link">> ->
                            IF Truthy(c.htmlContent)
                            THEN Turndown(c.htmlContent) ELSE <<>>
                      [] c.type = <<"text">> -> c.text
                      [] c.type = <<"asset">> -> Coalesce(c.content, <<>>)
                      [] OTHER -> <<>>])

\* KarakeepAPISchemas["List"]
List(id, name, parentId) ==
    [id |-> id, name |-> name, description |-> NULL, icon |-> <<"i">>,
     parentId |-> parentId, type |-> <<"manual">>, query |-> NULL,
     public |-> FALSE, userId |-> <<"u1">>]

toListSummary(list) ==
    [id |-> list.id, name |-> list.name, description |-> list.description,
     icon |-> list.icon, parentId |-> list.parentId, type |-> list.type,
     query |-> list.query, public |-> list.public]

getListsCall(in) == [op |-> "getLists"]

getLists(in, res) ==
    IF DataFalsy(res)
    THEN ThrowServiceError(res, <<"Failed to load lists">>, 400)
    ELSE Returned(
            [lists |-> [i \in 1..Len(res.data.value.lists) |->
                            toListSummary(res.data.value.lists[i])]])

createListCall(in) ==
    [op |-> "createList", name |-> in.name, icon |-> in.icon,
     parentId |-> in.parentId]

createList(in, res) ==
    IF DataFalsy(res)
    THEN ThrowServiceError(res, <<"Failed to create list">>, 400)
    ELSE LET listSummary == toListSummary(res.data.value)
         IN  Returned(
                [listId |-> listSummary.id, action |-> <<"created">>,
                 message |-> <<"List ">> \o listSummary.name
                             \o <<" created with id ">> \o listSummary.id,
                 list |-> listSummary])

addBookmarkToListCall(in) ==
    [op |-> "addToList", listId |-> in.listId, bookmarkId |-> in.bookmarkId]

\* if (res.error) in the membership and tag mutations
MutationFailedIfNoData(res) == DataFalsy(res)

MutationFailed(res) == ErrorTruthy(res)

addBookmarkToList(in, res) ==
    IF MutationFailed(res)
    THEN ThrowServiceError(res, <<"Failed to add bookmark to list">>, 400)
    ELSE Returned(
            [listId |-> in.listId, bookmarkId |-> in.bookmarkId,
             action |-> <<"added">>,
             message |-> <<"Bookmark ">> \o in.bookmarkId
                         \o <<" added to list ">> \o in.listId])

removeBookmarkFromListCall(in) ==
    [op |-> "removeFromList", listId |-> in.listId,
     bookmarkId |-> in.bookmarkId]

removeBookmarkFromList(in, res) ==
    IF MutationFailed(res)
    THEN ThrowServiceError(res, <<"Failed to remove bookmark from list">>, 400)
    ELSE Returned(
            [listId |-> in.listId, bookmarkId |-> in.bookmarkId,
             action |-> <<"removed">>,
             message |-> <<"Bookmark ">> \o in.bookmarkId
                         \o <<" removed from list ">> \o in.listId])

\* JSON.stringify of the tag list, kept as one piece per tag
TagsJson(tags) ==
    <<"[">> \o Join([i \in 1..Len(tags) |-> <<"\"">> \o tags[i] \o <<"\"">>],
                    <<",">>) \o <<"]">>

attachTagsToBookmarkCall(in) ==
    [op |-> "attachTags", bookmarkId |-> in.bookmarkId,
     tags |-> [i \in 1..Len(in.tags) |-> [tagName |-> in.tags[i]]]]

attachTagsToBookmark(in, res) ==
    IF MutationFailed(res)
    THEN ThrowServiceError(res, <<"Failed to attach tags">>, 400)
    ELSE Returned(
            [bookmarkId |-> in.bookmarkId, tags |-> in.tags,
             action |-> <<"attached">>,
             message |-> <<"Tags ">> \o TagsJson(in.tags)
                         \o <<" attached to bookmark ">> \o in.bookmarkId])

detachTagsFromBookmarkCall(in) ==
    [op |-> "detachTags", bookmarkId |-> in.bookmarkId,
     tags |-> [i \in 1..Len(in.tags) |-> [tagName |-> in.tags[i]]]]

detachTagsFromBookmark(in, res) ==
    IF MutationFailed(res)
    THEN ThrowServiceError(res, <<"Failed to detach tags">>, 400)
    ELSE Returned(
            [bookmarkId |-> in.bookmarkId, tags |-> in.tags,
             action |-> <<"detached">>,
             message |-> <<"Tags ">> \o TagsJson(in.tags)
                         \o <<" detached from bookmark ">> \o in.bookmarkId])

DataOps == {"search", "get", "create", "content", "getLists", "createList"}
MutationOps == {"addToList", "removeFromList", "attachTags", "detachTags"}
Ops == DataOps \cup MutationOps

\* the facade function of each capability, up to its await
UpstreamCallOf(in) ==
    CASE in.op = "search" -> SearchUpstreamCall(in)
      [] in.op = "get" -> getBookmarkCall(in)
      [] in.op = "create" -> createBookmarkCall(in)
      [] in.op = "content" -> getBookmarkContentCall(in)
      [] in.op = "getLists" -> getListsCall(in)
      [] in.op = "createList" -> createListCall(in)
      [] in.op = "addToList" -> addBookmarkToListCall(in)
      [] in.op = "removeFromList" -> removeBookmarkFromListCall(in)
      [] in.op = "attachTags" -> attachTagsToBookmarkCall(in)
      [] in.op = "detachTags" -> detachTagsFromBookmarkCall(in)

\* the facade function of each capability, after its await
FacadeOutcome(in, res) ==
    CASE in.op = "search" -> searchBookmarks(in, res)
      [] in.op = "get" -> getBookmark(in, res)
      [] in.op = "create" -> createBookmark(in, res)
      [] in.op = "content" -> getBookmarkContent(in, res)
      [] in.op = "getLists" -> getLists(in, res)
      [] in.op = "createList" -> createList(in, res)
      [] in.op = "addToList" -> addBookmarkToList(in, res)
      [] in.op = "removeFromList" -> removeBookmarkFromList(in, res)
      [] in.op = "attachTags" -> attachTagsToBookmark(in, res)
      [] in.op = "detachTags" -> detachTagsFromBookmark(in, res)

---------------------------------------------------------------------------
(* The two surfaces: what each accepts, and the input it hands the facade. *)

Surfaces == {"tool", "http"}

\* z.number().int().positive().max(100).optional()
SchemaLimitOk(l) ==
    IF l = NoLimit THEN TRUE ELSE IsInt(l) /\ IsPositive(l) /\ AtMostMax(l)

\* .refine((value) => !(value.nextCursor && value.cursor))
SchemaRefineOk(r) == ~(Truthy(r.nextCursor) /\ Truthy(r.cursor))

SearchSchemaWithoutRefine(r) ==
    /\ r.query # UNDEF
    /\ SchemaLimitOk(r.limit)

\* SearchBookmarksInputSchema.parse succeeds
SearchBookmarksInputSchema(r) ==
    /\ r.query # UNDEF
    /\ SchemaLimitOk(r.limit)
    /\ SchemaRefineOk(r)

\* the shape given to server.tool("search-bookmarks"): a string query, any
\* number as limit, nullish string cursors
SearchToolShape(r) == r.query # UNDEF

CreateBookmarkInputSchema(r) ==
    /\ r.type \in {<<"link">>, <<"text">>}
    /\ r.content # UNDEF

CreateListInputSchema(r) == r.name # UNDEF /\ r.icon # UNDEF

\* z.array(z.string()).min(1)
TagMutationInputSchema(r) == r.bookmarkId # UNDEF /\ Len(r.tags) >= 1

\* the shape given to server.tool("attach-tag-to-bookmark") and
\* server.tool("detach-tag-from-bookmark")
TagToolShape(r) == r.bookmarkId # UNDEF

Accepts(s, r) ==
    CASE r.op = "search" ->
            IF s = "http" THEN SearchBookmarksInputSchema(r)
            ELSE SearchToolShape(r)
      [] r.op = "create" -> CreateBookmarkInputSchema(r)
      [] r.op \in {"get", "content"} -> r.bookmarkId # UNDEF
      [] r.op = "getLists" -> TRUE
      [] r.op = "createList" -> CreateListInputSchema(r)
      [] r.op \in {"addToList", "removeFromList"} ->
            r.listId # UNDEF /\ r.bookmarkId # UNDEF
      [] r.op \in {"attachTags", "detachTags"} ->
            IF s = "http" THEN TagMutationInputSchema(r) ELSE TagToolShape(r)
      [] r.op = "badJson" -> FALSE

\* the parsed search input on the HTTP surface: limit defaulted
HttpSearchInput(r) ==
    [r EXCEPT !.limit = IF r.limit = NoLimit THEN Num(DefaultLimit) ELSE r.limit]

\* the search-bookmarks tool handler's call of searchBookmarks
ToolSearchInput(r) ==
    [r EXCEPT
        !.limit = IF r.limit = NoLimit THEN Num(ToolDefaultLimit) ELSE r.limit,
        !.nextCursor = Coalesce(r.nextCursor, UNDEF),
        !.cursor = Coalesce(r.cursor, UNDEF)]

InputOf(s, r) ==
    IF r.op = "search"
    THEN (IF s = "http" THEN HttpSearchInput(r) ELSE ToolSearchInput(r))
    ELSE r

---------------------------------------------------------------------------
(* Error rendering: what each surface shows the caller.                    *)

\* values that can be thrown: a falsy value, a truthy primitive (given by
\* its String() text), a plain object, a native exception
ThrownFalsy == [kind |-> "falsy"]
ThrownPrimitive(text) == [kind |-> "primitive", text |-> text]
ThrownObject(message, code, cyclic) ==
    [kind |-> "thrownObject", message |-> message, code |-> code,
     cyclic |-> cyclic]
NativeError(name, message) ==
    [kind |-> "Error", name |-> name, message |-> message]

\* an optional details value
NoDetails == [kind |-> "absent"]
Details(v) == [kind |-> "details", value |-> v]

SOMETHING_WENT_WRONG == <<"Something went wrong">>

\* a NormalizedError: the keys of the object literal and their values
\* (UNDEF, NoStatus, NoDetails where the key is missing or undefined)
Normalized(keys, message, code, status, details) ==
    [keys |-> keys, message |-> message, code |-> code, status |-> status,
     details |-> details]

normalizeError(error) ==
    CASE error.kind = "falsy" ->
            Normalized({"message"}, SOMETHING_WENT_WRONG, UNDEF, NoStatus,
                       NoDetails)
      [] error.kind = "ServiceError" ->
            Normalized({"message", "code", "status", "details"},
                       error.message, error.code, <<error.status>>,
                       Details(error.details))
      [] error.kind = "Error" ->
            Normalized({"message"}, error.message, UNDEF, NoStatus,
                       NoDetails)
      [] error.kind = "thrownObject" ->
            Normalized({"message", "code", "details"},
                       IF error.message \in {UNDEF, NONSTRING}
                       THEN SOMETHING_WENT_WRONG ELSE error.message,
                       StringOrUndefined(error.code), NoStatus,
                       Details(error))
      [] OTHER ->
            Normalized({"message"}, error.text, UNDEF, NoStatus, NoDetails)

\* the value holds a reference to itself
Cyclic(n) ==
    IF n.details.kind = "details"
    THEN (IF n.details.value.kind = "thrownObject"
          THEN n.details.value.cyclic ELSE FALSE)
    ELSE FALSE

\* the keys JSON.stringify writes: those whose value is not undefined
WireKeys(n) ==
    {k \in n.keys :
        CASE k = "code" -> n.code # UNDEF
          [] k = "status" -> n.status # NoStatus
          [] k = "details" -> n.details # NoDetails
          [] OTHER -> TRUE}

\* JSON.stringify: the text of the object, or a TypeError on a cyclic one
JsonStringify(n) ==
    IF Cyclic(n)
    THEN [kind |-> "TypeError"]
    ELSE [kind |-> "json", keys |-> WireKeys(n), of |-> n]

\* what a tool handler gives back: a CallToolResult, or an exception
ToolResult(isError, content, structuredContent) ==
    [kind |-> "toolResult", isError |-> isError, content |-> content,
     structuredContent |-> structuredContent]
HandlerThrows(error) == [kind |-> "throws", error |-> error]

toMcpToolError(error) ==
    LET normalized == normalizeError(error)
        text == JsonStringify(normalized)
    IN  IF text.kind = "TypeError"
        THEN HandlerThrows(NativeError("TypeError",
                <<"Converting circular structure to JSON">>))
        ELSE ToolResult(TRUE, text, [error |-> normalized])

\* an HTTP response: status line, whether the CORS headers were set, the
\* content type, the body
HttpResponse(status, cors, contentType, body) ==
    [kind |-> "http", status |-> status, cors |-> cors,
     contentType |-> contentType, body |-> body]

\* setCorsHeaders(res); sendJson(res, statusCode, body)
sendJson(statusCode, body) ==
    HttpResponse(statusCode, TRUE, "application/json", body)

\* the body { error: {...} } as JSON.stringify writes it
ErrorBody(n) == [error |-> [n EXCEPT !.keys = WireKeys(n)]]

INVALID_JSON_PAYLOAD == <<"Invalid JSON payload">>
INVALID_REQUEST == <<"Invalid request">>
INTERNAL_SERVER_ERROR == <<"Internal server error">>

handleHttpError(error) ==
    CASE error.kind = "Error" /\ error.name = "SyntaxError" ->
            sendJson(400, ErrorBody(Normalized({"message"},
                INVALID_JSON_PAYLOAD, UNDEF, NoStatus, NoDetails)))
      [] error.kind = "Error" /\ error.name = "ZodError" ->
            sendJson(400, ErrorBody(Normalized({"message", "details"},
                INVALID_REQUEST, UNDEF, NoStatus,
                Details([kind |-> "flatten"]))))
      [] error.kind = "ServiceError" ->
            sendJson(error.status, ErrorBody(Normalized(
                {"message", "code", "status", "details"},
                error.message, error.code, <<error.status>>,
                Details(error.details))))
      [] OTHER ->
            sendJson(500, ErrorBody(Normalized({"message"},
                INTERNAL_SERVER_ERROR, UNDEF, NoStatus, NoDetails)))

\* the exceptions the HTTP routes raise before any facade call
JsonSyntaxError == NativeError("SyntaxError", <<"Unexpected token">>)
ZodError == NativeError("ZodError", <<"invalid input">>)

\* the caller's view of a thrown error on each surface
RenderError(s, error) ==
    IF s = "http" THEN handleHttpError(error) ELSE toMcpToolError(error)

\* the status of the success response of each route
SuccessStatus(op) == IF op \in {"create", "createList"} THEN 201 ELSE 200

\* the caller's view of a returned value on each surface; the tool result's
\* content text is the tool's own rendering of the same value
RenderSuccess(s, op, value) ==
    IF s = "http"
    THEN sendJson(SuccessStatus(op), [value |-> value])
    ELSE ToolResult(FALSE, [kind |-> "text", of |-> value],
                    [value |-> value])

\* the caller's view of a facade outcome
RenderOutcome(s, op, out) ==
    IF out.kind = "ok"
    THEN RenderSuccess(s, op, out.value)
    ELSE RenderError(s, out)

\* the arguments do not fit the shape registered with server.tool: the
\* protocol library answers and the handler does not run
ToolArgumentsRejected == [kind |-> "invalidParams"]

\* the HTTP requests that reach no facade function
StaticOps == {"options", "openapi.json", "openapi.conf", "root"}
RefusedOps == {"missingUrl", "outsideBasePath", "unknownRoute"}
BodyRoutes == {"search", "create", "createList", "attachTags", "detachTags"}

ServeStatic(r) ==
    IF r.op = "options"
    THEN HttpResponse(204, TRUE, "none", [kind |-> "empty"])
    ELSE sendJson(200, [kind |-> r.op])

NOT_FOUND == <<"Not Found">>
BAD_REQUEST == <<"Bad Request">>

Refuse(r) ==
    CASE r.op = "missingUrl" ->
            sendJson(400, ErrorBody(Normalized({"message"}, BAD_REQUEST,
                UNDEF, NoStatus, NoDetails)))
      [] r.op = "outsideBasePath" ->
            HttpResponse(404, FALSE, "none", [text |-> NOT_FOUND])
      [] r.op = "unknownRoute" ->
            HttpResponse(404, TRUE, "none", [text |-> NOT_FOUND])

---------------------------------------------------------------------------
(* The requests and upstream responses explored.                           *)

SearchRequest(query, limit, nextCursor, cursor) ==
    [op |-> "search", query |-> query, limit |-> limit,
     nextCursor |-> nextCursor, cursor |-> cursor]

QueryCores ==
    {<<>>,
     BOOKMARKS,
     <<"B", "o", "o", "k", "m", "a", "r", "k", "s">>,
     <<"B", "O", "O", "K", "M", "A", "R", "K", "S">>,
     <<"b", "o", "o", "k", "m", "a", "r", "k">>,
     <<"m", "y", " ", "b", "o", "o", "k", "m", "a", "r", "k", "s", " ",
       "p", "l", "e", "a", "s", "e">>,
     <<"*">>,
     <<"x", "\t", "Y">>}

Queries ==
    {Spaces(l) \o core \o Spaces(r) :
        l \in 0..MaxPad, r \in 0..MaxPad, core \in QueryCores}
    \cup {<<"\t">> \o BOOKMARKS \o <<"\n">>, UNDEF}

Limits ==
    {NoLimit, Num(-3), Num(0), Num(1), NumAndHalf(2), Num(MaxLimit),
     Num(MaxLimit + 1)}

Cursors == {UNDEF, NULL, <<>>, <<"c", "1">>, <<"c", "2">>}

SearchRequests ==
    {SearchRequest(q, l, n, c) :
        q \in Queries, l \in Limits, n \in Cursors, c \in Cursors}

B1 == <<"b", "1">>
L1 == <<"l", "1">>

OtherRequests ==
    {[op |-> "get", bookmarkId |-> B1],
     [op |-> "content", bookmarkId |-> B1],
     [op |-> "getLists"],
     [op |-> "addToList", listId |-> L1, bookmarkId |-> B1],
     [op |-> "removeFromList", listId |-> L1, bookmarkId |-> B1]}
    \cup {[op |-> "create", type |-> t, title |-> ti,
           content |-> <<"e", ".", "x">>] :
            t \in {<<"link">>, <<"text">>, <<"asset">>},
            ti \in {UNDEF, <<"T">>}}
    \cup {[op |-> "createList", name |-> n, icon |-> <<"i">>, parentId |-> p] :
            n \in {UNDEF, <<"N">>}, p \in {UNDEF, <<"p", "1">>}}
    \cup {[op |-> o, bookmarkId |-> B1, tags |-> t] :
            o \in {"attachTags", "detachTags"},
            t \in {<<>>, << <<"w">> >>, << <<"w">>, <<"u">> >>}}

AllRequests == SearchRequests \cup OtherRequests

\* what only an HTTP client can send: a body that is not JSON, a request
\* for a page the server answers itself, a request no route takes
HttpOnlyRequests ==
    {[op |-> "badJson", route |-> o] : o \in BodyRoutes}
    \cup {[op |-> o] : o \in StaticOps \cup RefusedOps}

\* what the upstream client can throw
InternalMessages ==
    {<<"connect ECONNREFUSED 10.0.0.5:3000">>, <<"fetch failed">>}
ThrownValues ==
    {ThrownFalsy, ThrownPrimitive(<<"o", "o", "p", "s">>)}
    \cup {ThrownObject(m, c, cyclic) :
            m \in {UNDEF, NONSTRING, <<"b", "a", "d">>},
            c \in {UNDEF, NONSTRING, <<"E", "1">>},
            cyclic \in BOOLEAN}
    \cup {NativeError(n, m) :
            n \in {"TypeError", "Error"}, m \in InternalMessages}
CoreThrown ==
    {NativeError("TypeError", <<"fetch failed">>),
     ThrownObject(UNDEF, UNDEF, FALSE)}

\* one request per capability, and one that no surface accepts
OneRequestEach ==
    {SearchRequest(<<"x">>, NoLimit, UNDEF, <<"c", "1">>),
     SearchRequest(UNDEF, NoLimit, UNDEF, UNDEF),
     [op |-> "get", bookmarkId |-> B1],
     [op |-> "content", bookmarkId |-> B1],
     [op |-> "getLists"],
     [op |-> "addToList", listId |-> L1, bookmarkId |-> B1],
     [op |-> "removeFromList", listId |-> L1, bookmarkId |-> B1],
     [op |-> "create", type |-> <<"link">>, title |-> <<"T">>,
      content |-> <<"e", ".", "x">>],
     [op |-> "createList", name |-> <<"N">>, icon |-> <<"i">>,
      parentId |-> UNDEF],
     [op |-> "attachTags", bookmarkId |-> B1, tags |-> << <<"w">> >>],
     [op |-> "detachTags", bookmarkId |-> B1, tags |-> << <<"w">> >>]}

ShapeRequests ==
    {SearchRequest(<<"x">>, NoLimit, UNDEF, <<"c", "1">>),
     SearchRequest(<<>>, Num(5), UNDEF, UNDEF),
     SearchRequest(UNDEF, NoLimit, UNDEF, UNDEF)}

\* upstream records: A1 and A2 share an id and differ in content
BmA1 ==
    Bookmark(<<"A">>, <<"*", "b", "o", "l", "d", "*">>, <<"s", "_", "1">>,
             NULL, << <<"x", "-", "y">> >>,
             Content(<<"link">>, <<"t">>, <<"a", ".", "b">>, UNDEF, UNDEF,
                     UNDEF))
BmA2 ==
    Bookmark(<<"A">>, NULL, NULL, <<" ", "n", "#", " ">>, <<>>,
             Content(<<"link">>, <<"[", "A", "]">>, <<"a", ".", "b", "2">>,
                     UNDEF, UNDEF, UNDEF))
BmB ==
    Bookmark(<<"B">>, <<" ">>, UNDEF, UNDEF, << <<"t">>, <<"u", "!">> >>,
             Content(<<"text">>, UNDEF, UNDEF, <<"c", ".", "d">>, UNDEF,
                     UNDEF))
BmC ==
    Bookmark(<<"C">>, UNDEF, <<>>, <<>>, <<>>,
             Content(<<"asset">>, UNDEF, UNDEF, NULL, <<"a", "-", "1">>,
                     <<"image">>))

\* records whose content is none of link, text and asset: the upstream
\* placeholder type, a type this program does not know, and no type at all
BmUnknown ==
    Bookmark(<<"U">>, NULL, NULL, NULL, <<>>,
             Content(<<"unknown">>, UNDEF, UNDEF, UNDEF, UNDEF, UNDEF))
BmVideo ==
    Bookmark(<<"V">>, NULL, NULL, NULL, <<>>,
             Content(<<"video">>, <<"t">>, <<"a", ".", "b">>,
                     <<"c", ".", "d">>, <<"a", "-", "1">>, <<"image">>))
BmUntyped ==
    Bookmark(<<"W">>, NULL, NULL, NULL, <<>>,
             Content(UNDEF, UNDEF, UNDEF, UNDEF, UNDEF, UNDEF))

UpstreamBookmarks == {BmA1, BmA2, BmB, BmC}

\* the characters free text is explored over: every markdown-significant
\* character, a letter and a space
TextAlphabet == MARKDOWN_ESCAPE_CHARACTERS \cup {"a", " "}

\* a record whose free text is the given string
TextBookmark(text) ==
    Bookmark(<<"T">>, text, text, text, << text >>,
             Content(<<"link">>, UNDEF, text, UNDEF, UNDEF, UNDEF))

Page(bookmarks, nextCursor) ==
    [bookmarks |-> bookmarks, nextCursor |-> nextCursor]

NextCursors == {UNDEF, NULL, <<>>, <<"n", "1">>}

DedupPages == SeqsUpTo(UpstreamBookmarks, MaxPage)
TextPages == {<<TextBookmark(t)>> : t \in SeqsUpTo(TextAlphabet, MaxStr)}

Ok(payload) == Response(Data(payload), NoError, <<200>>)

ErrorShapes ==
    {ErrorText(<<>>), ErrorText(<<"o", "o", "p", "s">>)}
    \cup {ErrorObject(m, c) :
            m \in {UNDEF, NONSTRING, <<>>, <<"b", "a", "d">>},
            c \in {UNDEF, NONSTRING, <<"E", "1">>}}

\* response.status of a failed call; <<>> when the client gives no response
\* object
FailureStatuses == {<<401>>, <<404>>, <<500>>, <<>>}

\* a success of the capability, as the client returns it
SuccessResponses(op) ==
    CASE op = "search" -> {Ok(Page(<<BmA1, BmB>>, <<"n", "1">>)),
                           Ok(Page(<<>>, UNDEF))}
      [] op \in {"get", "create"} ->
            {Ok(BmA1), Ok(BmB), Ok(BmC), Ok(BmUnknown), Ok(BmVideo),
             Ok(BmUntyped)}
      [] op = "content" -> {Ok(BmA1), Ok(BmB), Ok(BmC)}
      [] op = "getLists" ->
            {Ok([lists |-> <<List(L1, <<"N">>, NULL),
                             List(<<"l", "2">>, <<"M">>, L1)>>])}
      [] op = "createList" -> {Ok(List(L1, <<"N">>, NULL))}
      [] OTHER -> {Ok([ok |-> TRUE])}

\* every response explored for the capability: a payload; no payload and
\* no error (204 No Content, or a null body); an error body of each shape
AllResponses(op) ==
    SuccessResponses(op)
    \cup {Response(NoData, NoError, <<204>>),
          Response(NullData, NoError, <<200>>)}
    \cup {Response(NoData, e, st) : e \in ErrorShapes, st \in FailureStatuses}

CoreResponses(op) ==
    SuccessResponses(op)
    \cup {Response(NoData, NoError, <<204>>),
          Response(NoData, ErrorObject(<<"b", "a", "d">>, <<"E", "1">>),
                   <<401>>)}

ShapeResponses(op) ==
    {Ok(Page(p, n)) : p \in DedupPages \cup TextPages, n \in NextCursors}

\* the calls and the answers explored side by side
FlightInputs ==
    {HttpSearchInput(SearchRequest(<<"x">>, NoLimit, UNDEF, UNDEF)),
     HttpSearchInput(SearchRequest(BOOKMARKS, Num(5), <<"c", "1">>, UNDEF)),
     [op |-> "get", bookmarkId |-> B1]}
FlightPages == SeqsUpTo({BmA1, BmA2, BmB}, MaxFlightPage)
FlightResponses(op) ==
    IF op = "search"
    THEN {Ok(Page(p, n)) : p \in FlightPages, n \in {NULL, <<"n", "1">>}}
         \cup {Response(NoData, ErrorObject(<<"b", "a", "d">>, UNDEF),
                         <<500>>)}
    ELSE CoreResponses(op)
FlightResponseOf == [op \in Ops |-> FlightResponses(op)]

\* the longest run of whitespace explored inside a long text
MaxGap == 2

\* a text around the cap: a word that ends d characters after the cut at
\* cap - 1, a run of spaces, a second word; with or without a leading space
LongText(cap, d, gap, tail, lead) ==
    Spaces(lead) \o [i \in 1..(cap - 1 + d) |-> "a"] \o Spaces(gap)
    \o [i \in 1..tail |-> "b"]

LongTextShapes ==
    {<<d, gap, tail, lead>> :
        d \in (0 - 2)..1, gap \in 0..MaxGap, tail \in {0, 1, MaxGap + 1},
        lead \in {0, 1}}

\* a record whose summary and note are long texts of the same shape
LongBookmark(w) ==
    Bookmark(<<"L">>, <<"t">>,
             LongText(SummaryCap, w[1], w[2], w[3], w[4]),
             LongText(NoteCap, w[1], w[2], w[3], w[4]), <<>>,
             Content(<<"text">>, UNDEF, UNDEF, UNDEF, UNDEF, UNDEF))

LongResponses(op) ==
    IF op = "search"
    THEN {Ok(Page(<<LongBookmark(w)>>, NULL)) : w \in LongTextShapes}
    ELSE CoreResponses(op)
LongResponseOf == [op \in Ops |-> LongResponses(op)]

---------------------------------------------------------------------------
(* The shared delete queue (module state of the bookmark hooks) and the    *)
(* useDeleteBookmark instances that feed and drain it.                     *)

\* the enqueueDeleteTask calls explored
MaxTasks == 3

\* the maxQueueSize the callers that cap the queue pass
QueueLimit == 2

\* the hook instances; 0 stands for no hook (a null processor, an instance
\* that is gone)
Hooks == {1, 2}
NoHook == 0

B2 == <<"b", "2">>
BookmarkIds == {B1, B2}

\* DeleteQueueConfig: maxQueueSize is <<n>>, or <<>> when it is not given
DeleteQueueConfig(dedupeByBookmarkId, maxQueueSize) ==
    [dedupeByBookmarkId |-> dedupeByBookmarkId,
     maxQueueSize |-> maxQueueSize]

AllConfigs ==
    {DeleteQueueConfig(d, m) : d \in BOOLEAN, m \in {<<>>, <<QueueLimit>>}}
CappedConfigs ==
    {DeleteQueueConfig(d, <<QueueLimit>>) : d \in BOOLEAN}

\* DeleteQueueState
DeleteQueueState(size, isProcessing) ==
    [size |-> size, isProcessing |-> isProcessing]

\* the module-level variables as one value, with the invocations of the
\* processor that have not finished and the order of the tasks handed to it
QueueState ==
    [deleteQueue |-> deleteQueue,
     deleteQueueProcessing |-> deleteQueueProcessing,
     deleteQueueProcessor |-> deleteQueueProcessor,
     currentDeleteQueueState |-> currentDeleteQueueState,
     currentProcessingDedupeKey |-> currentProcessingDedupeKey,
     inFlight |-> inFlight,
     handed |-> handed]

SetQueueState(q) ==
    /\ deleteQueue' = q.deleteQueue
    /\ deleteQueueProcessing' = q.deleteQueueProcessing
    /\ deleteQueueProcessor' = q.deleteQueueProcessor
    /\ currentDeleteQueueState' = q.currentDeleteQueueState
    /\ currentProcessingDedupeKey' = q.currentProcessingDedupeKey
    /\ inFlight' = q.inFlight
    /\ handed' = q.handed

\* the published state is replaced when size or isProcessing differ; the
\* listeners are then told, and each hook reads the published state when it
\* next renders
emitDeleteQueueState(q) ==
    [q EXCEPT !.currentDeleteQueueState =
        DeleteQueueState(Len(q.deleteQueue), q.deleteQueueProcessing)]

QueuePop(queue) ==
    [item |-> queue[Len(queue)], rest |-> SubSeq(queue, 1, Len(queue) - 1)]

\* deleteQueue.shift()
QueueShift(queue) == [item |-> Head(queue), rest |-> Tail(queue)]

NeverProcessing(q) == FALSE

\* if (deleteQueueProcessing) return
AlreadyProcessing(q) == q.deleteQueueProcessing

\* a call of the processor: the task, the hook whose mutation runs it, and
\* how far its promise is (pending, resolved, rejected)
Invocation(item, by) ==
    [task |-> item.task, bookmarkId |-> item.bookmarkId, by |-> by,
     phase |-> "pending"]

processDeleteQueue(q) ==
    IF AlreadyProcessing(q) THEN q
    ELSE IF q.deleteQueueProcessor = NoHook THEN q
    ELSE IF q.deleteQueue = <<>>
    THEN emitDeleteQueueState([q EXCEPT !.currentProcessingDedupeKey = UNDEF])
    ELSE LET nextItem == QueueShift(q.deleteQueue).item
             started ==
                emitDeleteQueueState(
                    [q EXCEPT
                        !.deleteQueue = QueueShift(q.deleteQueue).rest,
                        !.currentProcessingDedupeKey = nextItem.dedupeKey,
                        !.deleteQueueProcessing = TRUE])
         IN  [started EXCEPT
                !.inFlight = @ \cup {Invocation(nextItem, q.deleteQueueProcessor)},
                !.handed = Append(@, nextItem.task)]

TotalQueued(q) == Len(q.deleteQueue)

\* deleteQueue.length + (deleteQueueProcessing ? 1 : 0)
TotalInFlight(q) ==
    Len(q.deleteQueue) + (IF q.deleteQueueProcessing THEN 1 ELSE 0)

\* the dedupe key of a task under the configuration
DedupeKeyOf(bookmarkId, config) ==
    IF config.dedupeByBookmarkId /\ Len(Trim(bookmarkId)) > 0
    THEN bookmarkId
    ELSE UNDEF

\* what enqueueDeleteTask leaves and returns: the queue state, the result
\* (enqueued, or the error: duplicate, limit) and the callbacks it invoked
EnqueueResult(q, result, onDuplicate, onQueueOverflow) ==
    [queue |-> q, result |-> result, onDuplicate |-> onDuplicate,
     onQueueOverflow |-> onQueueOverflow]

enqueueDeleteTask(q, task, config) ==
    LET dedupeKey == DedupeKeyOf(task.bookmarkId, config)
        duplicateExists ==
            \/ q.currentProcessingDedupeKey = dedupeKey
            \/ \E i \in 1..Len(q.deleteQueue) :
                    q.deleteQueue[i].dedupeKey = dedupeKey
        capped ==
            config.maxQueueSize # <<>> /\ config.maxQueueSize[1] > 0
        item ==
            [task |-> task.task, bookmarkId |-> task.bookmarkId,
             dedupeKey |-> dedupeKey]
        pushed ==
            emitDeleteQueueState(
                [q EXCEPT !.deleteQueue = Append(@, item)])
    IN  IF dedupeKey # UNDEF /\ duplicateExists
        THEN EnqueueResult(q, "duplicate", TRUE, FALSE)
        ELSE IF capped /\ TotalInFlight(q) >= config.maxQueueSize[1]
        THEN EnqueueResult(q, "limit", FALSE, TRUE)
        ELSE EnqueueResult(
                IF pushed.deleteQueueProcessing
                THEN pushed
                ELSE processDeleteQueue(pushed),
                "enqueued", FALSE, FALSE)

\* a hook instance: whether it is mounted, pendingInvalidationsRef, the
\* queue state its effect last ran with, and whether its mutation has
\* completed a delete since its last bulk invalidation
NoDeps == [kind |-> "none"]
Deps(queueState) == [kind |-> "deps", queueState |-> queueState]

UnmountedHook ==
    [mounted |-> FALSE, pendingInvalidations |-> FALSE, deps |-> NoDeps,
     succeededSince |-> FALSE]

ShouldInvalidateWhenEmpty(queueState, pendingInvalidations) ==
    queueState.size = 0 /\ pendingInvalidations

\* the condition of the effect that issues the bulk invalidation
ShouldInvalidate(queueState, pendingInvalidations) ==
    /\ ~queueState.isProcessing
    /\ queueState.size = 0
    /\ pendingInvalidations

\* the effect keyed on [queueState.isProcessing, queueState.size]
InvalidationEffect(hook, queueState) ==
    IF ShouldInvalidate(queueState, hook.pendingInvalidations)
    THEN [hook EXCEPT !.pendingInvalidations = FALSE,
                      !.succeededSince = FALSE,
                      !.deps = Deps(queueState)]
    ELSE [hook EXCEPT !.deps = Deps(queueState)]

---------------------------------------------------------------------------
(* The request's life.                                                     *)

NoRequest == [op |-> "none"]
NoResponse == [kind |-> "none"]
NoOutcome == [kind |-> "none"]
NoReply == [kind |-> "none"]

\* the callers whose facade calls run side by side
Callers == {1, 2}

\* a caller that has not called yet
IdleFlight ==
    [pc |-> "idle", input |-> NoRequest, response |-> NoResponse,
     outcome |-> NoOutcome, seen |-> {}]

Init ==
    /\ pc = "idle"
    /\ surface = "none"
    /\ request = NoRequest
    /\ input = NoRequest
    /\ upstreamCalls = <<>>
    /\ response = NoResponse
    /\ outcome = NoOutcome
    /\ reply = NoReply
    /\ flights = [i \in Callers |-> IdleFlight]
    /\ deleteQueue = <<>>
    /\ deleteQueueProcessing = FALSE
    /\ deleteQueueProcessor = NoHook
    /\ currentDeleteQueueState = DeleteQueueState(0, FALSE)
    /\ currentProcessingDedupeKey = UNDEF
    /\ inFlight = {}
    /\ scheduled = 0
    /\ hooks = [h \in Hooks |-> UnmountedHook]
    /\ tasks = <<>>
    /\ handed = <<>>
    /\ bulkInvalidations = [issued |-> 0, succeededSince |-> FALSE]

\* a request arrives on one of the surfaces
Receive(requests) ==
    /\ pc = "idle"
    /\ \E s \in Surfaces :
        \E r \in (IF s = "http" THEN requests \cup HttpOnlyRequests
                  ELSE requests) :
            /\ surface' = s
            /\ request' = r
    /\ pc' = "received"
    /\ UNCHANGED <<input, upstreamCalls, response, outcome, reply, flights, queueVars>>

\* the HTTP server answers by itself: preflight, the OpenAPI documents,
\* the root page
Serve ==
    /\ pc = "received"
    /\ request.op \in StaticOps
    /\ outcome' = [kind |-> "static"]
    /\ reply' = ServeStatic(request)
    /\ pc' = "done"
    /\ UNCHANGED
        <<surface, request, input, upstreamCalls, response, flights, queueVars>>

\* the HTTP server refuses the request before any route: no URL, a path
\* outside the base path, a path no route matches
Refused ==
    /\ pc = "received"
    /\ request.op \in RefusedOps
    /\ outcome' = [kind |-> "refused"]
    /\ reply' = Refuse(request)
    /\ pc' = "done"
    /\ UNCHANGED
        <<surface, request, input, upstreamCalls, response, flights, queueVars>>

\* the surface's validation fails: no facade function runs
Reject ==
    /\ pc = "received"
    /\ request.op \in Ops \cup {"badJson"}
    /\ Accepts(surface, request) = FALSE
    /\ outcome' = [kind |-> "ValidationError"]
    /\ reply' = (IF surface = "http"
                 THEN handleHttpError(IF request.op = "badJson"
                                      THEN JsonSyntaxError ELSE ZodError)
                 ELSE ToolArgumentsRejected)
    /\ pc' = "done"
    /\ UNCHANGED
        <<surface, request, input, upstreamCalls, response, flights, queueVars>>

\* validation passes and the facade function runs up to its await
Dispatch ==
    /\ pc = "received"
    /\ request.op \in Ops
    /\ Accepts(surface, request) = TRUE
    /\ input' = InputOf(surface, request)
    /\ upstreamCalls' = Append(upstreamCalls, UpstreamCallOf(input'))
    /\ pc' = "awaiting"
    /\ UNCHANGED <<surface, request, response, outcome, reply, flights, queueVars>>

\* the responses explored in each specification, by operation
CoreResponseOf == [op \in Ops |-> CoreResponses(op)]
AllResponseOf == [op \in Ops |-> AllResponses(op)]
ShapeResponseOf == [op \in Ops |-> ShapeResponses(op)]

CallsAfterAwaitWithRetry(calls, in, res) ==
    IF FacadeOutcome(in, res).kind = "ServiceError"
    THEN Append(calls, UpstreamCallOf(in))
    ELSE calls

\* the upstream calls once the facade function has run past its await: no
\* facade function calls the client a second time
CallsAfterAwait(calls, in, res) == calls

\* the client answers, the facade function runs to its end and the surface
\* renders what it returned or threw
Respond(responses) ==
    /\ pc = "awaiting"
    /\ \E res \in responses[input.op] :
        /\ response' = res
        /\ outcome' = FacadeOutcome(input, res)
        /\ upstreamCalls' = CallsAfterAwait(upstreamCalls, input, res)
        /\ reply' = RenderOutcome(surface, input.op, outcome')
    /\ pc' = "done"
    /\ UNCHANGED <<surface, request, input, flights, queueVars>>

\* the client throws instead of answering (the network failed): the facade
\* function lets the exception through and the surface renders it
Fail(thrown) ==
    /\ pc = "awaiting"
    /\ \E error \in thrown :
        /\ outcome' = [kind |-> "thrown", error |-> error]
        /\ reply' = RenderError(surface, error)
    /\ pc' = "done"
    /\ UNCHANGED
        <<surface, request, input, upstreamCalls, response, flights, queueVars>>

Next ==
    \/ Receive(AllRequests)
    \/ Serve
    \/ Refused
    \/ Reject
    \/ Dispatch
    \/ Respond(CoreResponseOf)
    \/ Fail(CoreThrown)

Spec == Init /\ [][Next]_vars

NextError ==
    \/ Receive(OneRequestEach)
    \/ Serve
    \/ Refused
    \/ Reject
    \/ Dispatch
    \/ Respond(AllResponseOf)
    \/ Fail(ThrownValues)

SpecError == Init /\ [][NextError]_vars

NextShape ==
    \/ Receive(ShapeRequests)
    \/ Serve
    \/ Refused
    \/ Reject
    \/ Dispatch
    \/ Respond(ShapeResponseOf)
    \/ Fail(CoreThrown)

SpecShape == Init /\ [][NextShape]_vars

\* the ids the searches of the other callers have seen
SeenByOthers(f, i) == UNION {f[j].seen : j \in Callers \ {i}}

\* the facade function after its await, with other calls in flight
FacadeOutcomeAmong(in, res, seenByOthers) ==
    IF in.op = "search"
    THEN searchBookmarksAmong(in, res, seenByOthers)
    ELSE FacadeOutcome(in, res)

\* a caller invokes a facade function, which runs up to its await
Invoke(inputs) ==
    /\ \E i \in Callers, in \in inputs :
        /\ flights[i].pc = "idle"
        /\ flights' = [flights EXCEPT ![i].pc = "awaiting", ![i].input = in]
        /\ upstreamCalls' = Append(upstreamCalls, UpstreamCallOf(in))
    /\ UNCHANGED <<pc, surface, request, input, response, outcome, reply,
                   queueVars>>

\* the client answers one of the calls in flight, whose facade function
\* runs to its end
Resume(responses) ==
    /\ \E i \in Callers :
        /\ flights[i].pc = "awaiting"
        /\ \E res \in responses[flights[i].input.op] :
            flights' = [flights EXCEPT ![i] =
                [pc |-> "done",
                 input |-> flights[i].input,
                 response |-> res,
                 outcome |-> FacadeOutcomeAmong(flights[i].input, res,
                                                SeenByOthers(flights, i)),
                 seen |-> IF flights[i].input.op = "search" /\ ~DataFalsy(res)
                          THEN SeenBookmarkIds(res, SeenByOthers(flights, i))
                          ELSE {}]]
    /\ UNCHANGED <<pc, surface, request, input, upstreamCalls, response,
                   outcome, reply, queueVars>>

NextFlights ==
    \/ Invoke(FlightInputs)
    \/ Resume(FlightResponseOf)

SpecFlights == Init /\ [][NextFlights]_vars

\* searches answered with records whose summary and note are long
NextLong ==
    \/ Receive(ShapeRequests)
    \/ Serve
    \/ Refused
    \/ Reject
    \/ Dispatch
    \/ Respond(LongResponseOf)
    \/ Fail(CoreThrown)

SpecLong == Init /\ [][NextLong]_vars

\* a component that calls useDeleteBookmark mounts: the first render reads
\* the published state, then the effects run: the hook's mutation becomes
\* the processor and a waiting queue is started
Mount ==
    /\ \E h \in Hooks :
        /\ ~hooks[h].mounted
        /\ LET registered == [QueueState EXCEPT !.deleteQueueProcessor = h]
           IN  SetQueueState(
                 IF Len(deleteQueue) > 0 /\ ~deleteQueueProcessing
                 THEN processDeleteQueue(registered)
                 ELSE registered)
        /\ hooks' = [hooks EXCEPT ![h] =
                        InvalidationEffect(
                            [hooks[h] EXCEPT !.mounted = TRUE],
                            currentDeleteQueueState)]
    /\ UNCHANGED <<serverVars, scheduled, tasks, bulkInvalidations>>

\* a mounted hook renders after the published state has changed, and the
\* effect keyed on the state runs
Render ==
    /\ \E h \in Hooks :
        /\ hooks[h].mounted
        /\ hooks[h].deps # Deps(currentDeleteQueueState)
        /\ hooks' = [hooks EXCEPT ![h] =
                        InvalidationEffect(hooks[h], currentDeleteQueueState)]
        /\ bulkInvalidations' =
                IF ShouldInvalidate(currentDeleteQueueState,
                                    hooks[h].pendingInvalidations)
                THEN [issued |-> bulkInvalidations.issued + 1,
                      succeededSince |-> FALSE]
                ELSE bulkInvalidations
    /\ UNCHANGED <<serverVars, deleteQueue, deleteQueueProcessing,
                   deleteQueueProcessor, currentDeleteQueueState,
                   currentProcessingDedupeKey, inFlight, scheduled, tasks,
                   handed>>

\* the component unmounts: the effect's cleanup clears the processor when
\* nothing is queued; the instance and its refs are gone
Unmount ==
    /\ \E h \in Hooks :
        /\ hooks[h].mounted
        /\ deleteQueueProcessor' =
                IF Len(deleteQueue) = 0 THEN NoHook ELSE deleteQueueProcessor
        /\ hooks' = [hooks EXCEPT ![h] = UnmountedHook]
        /\ inFlight' =
                {IF inv.by = h THEN [inv EXCEPT !.by = NoHook] ELSE inv :
                    inv \in inFlight}
    /\ UNCHANGED <<serverVars, deleteQueue, deleteQueueProcessing,
                   currentDeleteQueueState, currentProcessingDedupeKey,
                   scheduled, tasks, handed, bulkInvalidations>>

\* a delete of the bookmark is queued, or in flight and not yet settled
DeleteWaiting(bookmarkId) ==
    \/ \E i \in 1..Len(deleteQueue) : deleteQueue[i].bookmarkId = bookmarkId
    \/ \E inv \in inFlight :
            inv.phase = "pending" /\ inv.bookmarkId = bookmarkId

\* the caller caps the queue, and the queued deletes and the one in flight
\* have reached the cap
AtQueueLimit(config) ==
    /\ config.maxQueueSize # <<>>
    /\ Len(deleteQueue)
        + Cardinality({inv \in inFlight : inv.phase = "pending"})
            >= config.maxQueueSize[1]

\* a mounted component calls mutateAsync of the hook: enqueueDeleteTask
\* runs, and a refused task is rejected at once; the call is recorded with
\* its result, the callbacks invoked, and whether it came for a bookmark
\* whose delete was waiting (with dedupe on) or at the queue limit
Enqueue(configs) ==
    /\ Len(tasks) < MaxTasks
    /\ \E h \in Hooks : hooks[h].mounted
    /\ \E bookmarkId \in BookmarkIds, config \in configs :
        LET task == [task |-> Len(tasks) + 1, bookmarkId |-> bookmarkId]
            r == enqueueDeleteTask(QueueState, task, config)
        IN  /\ SetQueueState(r.queue)
            /\ tasks' = Append(tasks,
                    [result |-> r.result, onDuplicate |-> r.onDuplicate,
                     onQueueOverflow |-> r.onQueueOverflow,
                     deleteWaiting |-> config.dedupeByBookmarkId
                                       /\ DeleteWaiting(bookmarkId),
                     atLimit |-> AtQueueLimit(config),
                     callback |-> IF r.result = "enqueued" THEN "none"
                                  ELSE "reject"])
    /\ UNCHANGED <<serverVars, scheduled, hooks, bulkInvalidations>>

\* the mutation of a processor invocation settles: onSuccess of the hook
\* that ran it marks its pending invalidation, and the task's resolve or
\* reject is called
Settle ==
    /\ \E inv \in inFlight, ok \in BOOLEAN :
        /\ inv.phase = "pending"
        /\ inFlight' = (inFlight \ {inv}) \cup
                {[inv EXCEPT !.phase = IF ok THEN "resolved" ELSE "rejected"]}
        /\ tasks' = [tasks EXCEPT ![inv.task].callback =
                        IF ok THEN "resolve" ELSE "reject"]
        /\ hooks' = IF ok /\ inv.by # NoHook
                    THEN [hooks EXCEPT
                            ![inv.by].pendingInvalidations = TRUE,
                            ![inv.by].succeededSince = TRUE]
                    ELSE hooks
        /\ bulkInvalidations' =
                [bulkInvalidations EXCEPT !.succeededSince = @ \/ ok]
    /\ UNCHANGED <<serverVars, deleteQueue, deleteQueueProcessing,
                   deleteQueueProcessor, currentDeleteQueueState,
                   currentProcessingDedupeKey, scheduled, handed>>

\* the finally callback of a settled invocation: the flag and the key are
\* cleared, the state is published, and a microtask that calls
\* processDeleteQueue is queued when tasks wait
Finally ==
    /\ \E inv \in inFlight :
        /\ inv.phase # "pending"
        /\ SetQueueState(
              emitDeleteQueueState(
                [QueueState EXCEPT
                    !.currentProcessingDedupeKey = UNDEF,
                    !.deleteQueueProcessing = FALSE,
                    !.inFlight = @ \ {inv}]))
        /\ scheduled' =
                IF Len(deleteQueue) > 0 THEN scheduled + 1 ELSE scheduled
    /\ UNCHANGED <<serverVars, hooks, tasks, bulkInvalidations>>

\* a queued microtask runs processDeleteQueue
RunScheduled ==
    /\ scheduled > 0
    /\ scheduled' = scheduled - 1
    /\ SetQueueState(processDeleteQueue(QueueState))
    /\ UNCHANGED <<serverVars, hooks, tasks, bulkInvalidations>>

\* callers that pass any configuration
NextQueue ==
    \/ Mount
    \/ Render
    \/ Unmount
    \/ Enqueue(AllConfigs)
    \/ Settle
    \/ Finally
    \/ RunScheduled

SpecQueue == Init /\ [][NextQueue]_vars

\* callers that all cap the queue at QueueLimit
NextQueueCapped ==
    \/ Mount
    \/ Render
    \/ Unmount
    \/ Enqueue(CappedConfigs)
    \/ Settle
    \/ Finally
    \/ RunScheduled

SpecQueueCapped == Init /\ [][NextQueueCapped]_vars

\* every promise settles, every promise callback and every queued
\* microtask runs; when components mount, unmount and call is up to the user
SpecQueueLive ==
    /\ Init /\ [][NextQueue]_vars
    /\ WF_vars(Settle)
    /\ WF_vars(Finally)
    /\ WF_vars(RunScheduled)

---------------------------------------------------------------------------
(* The claims.                                                             *)

\* an upstream call has been issued for the request
Called == Len(upstreamCalls) > 0

\* a search has returned its result
SearchReturned == pc = "done" /\ input.op = "search" /\ outcome.kind = "ok"

\* the ids of a sequence of records
Ids(records) == [i \in 1..Len(records) |-> records[i].id]

\* the positions of a page that hold the first occurrence of their id
FirstOccurrences(page) ==
    {i \in 1..Len(page) : \A j \in 1..(i - 1) : page[j].id # page[i].id}

\* the k-th smallest element of a set of numbers
Nth(F, k) == CHOOSE i \in F : Cardinality({j \in F : j < i}) = k - 1

\* C1: for every successful searchBookmarks call the returned items are the
\* upstream page with every later occurrence of an already-seen id removed:
\* the first occurrence of each id is kept, kept items stay in upstream
\* order, every upstream id appears exactly once, no two items share an id.
C1_DedupKeepsFirstOccurrences ==
    SearchReturned =>
        LET page == response.data.value.bookmarks
            F == FirstOccurrences(page)
            items == outcome.value.items
            raw == outcome.value.raw.items
        IN  /\ Len(items) = Cardinality(F)
            /\ Len(raw) = Cardinality(F)
            /\ \A k \in 1..Len(raw) :
                /\ raw[k] = toBookmarkSummary(page[Nth(F, k)])
                /\ items[k].id = page[Nth(F, k)].id
            /\ \A i, j \in 1..Len(items) :
                i # j => items[i].id # items[j].id
            /\ {items[k].id : k \in 1..Len(items)}
                    = {page[i].id : i \in 1..Len(page)}

\* C1 witness: upstream ids [A,B,A,C,B] came back as [A,B,C], the A kept
\* being the first one
C1_Witness ==
    /\ SearchReturned
    /\ response.data.value.bookmarks = <<BmA1, BmB, BmA2, BmC, BmB>>
    /\ Ids(outcome.value.items) = << <<"A">>, <<"B">>, <<"C">> >>
    /\ outcome.value.raw.items[1].title = BmA1.title

\* C2: every SearchResult satisfies hasMore = (nextCursor is not null) at
\* the top level, in data and in raw.data, whether upstream's nextCursor
\* was present, absent or null; hasMore is true exactly when upstream gave
\* a cursor.
C2_HasMoreIffNextCursor ==
    SearchReturned =>
        LET r == outcome.value
            upstreamNext == response.data.value.nextCursor
        IN  /\ r.hasMore = (r.nextCursor # NULL)
            /\ r.data.hasMore = (r.data.nextCursor # NULL)
            /\ r.raw.data.hasMore = (r.raw.data.nextCursor # NULL)
            /\ r.nextCursor # UNDEF
            /\ r.hasMore = ~Nullish(upstreamNext)

\* C2 witness: upstream left nextCursor out and the result says no more
C2_Witness ==
    /\ SearchReturned
    /\ response.data.value.nextCursor = UNDEF
    /\ outcome.value.nextCursor = NULL
    /\ outcome.value.hasMore = FALSE

\* C3: every upstream search call carries a limit that is an integer
\* between 1 and 100 inclusive, on whichever surface the request arrived
\* and whatever limit the caller supplied.
C3_UpstreamLimitInRange ==
    \A i \in 1..Len(upstreamCalls) :
        upstreamCalls[i].op = "search" =>
            LET l == upstreamCalls[i].limit
            IN  /\ Len(l) = 2
                /\ l[2] = 0
                /\ l[1] >= 1
                /\ l[1] <= MaxLimit

\* the caller supplied a string for the field
Supplied(v) == ~Nullish(v)

\* C4: a search request that supplies both nextCursor and cursor fails
\* validation on the HTTP surface and on the tool surface alike, for every
\* pair of supplied strings, and no upstream search call is made for it.
C4_BothCursorsRejected ==
    (/\ pc \in {"awaiting", "done"}
     /\ request.op = "search"
     /\ Supplied(request.nextCursor)
     /\ Supplied(request.cursor))
        => outcome.kind = "ValidationError" /\ ~Called

\* nextCursor if non-null, else cursor, else null
EffectiveCursorOf(in) ==
    IF ~Nullish(in.nextCursor) THEN in.nextCursor
    ELSE IF ~Nullish(in.cursor) THEN in.cursor
    ELSE NULL

\* the same input with the token moved to the other cursor field
Aliased(in) ==
    [in EXCEPT !.nextCursor = in.cursor, !.cursor = in.nextCursor]

\* C5: searchBookmarks with a token given as cursor and with the same token
\* given as nextCursor issue identical upstream calls and both echo the
\* token as cursor; the effective cursor is nextCursor if non-null, else
\* cursor, else null, and is echoed unmodified.
C5_CursorAliasing ==
    (Called /\ input.op = "search") =>
        LET call == upstreamCalls[1]
            eff == EffectiveCursorOf(input)
            oneField == Nullish(input.nextCursor) \/ Nullish(input.cursor)
        IN  /\ call.cursor = (IF eff = NULL THEN UNDEF ELSE eff)
            /\ oneField => SearchUpstreamCall(Aliased(input)) = call
            /\ SearchReturned =>
                /\ outcome.value.cursor = eff
                /\ outcome.value.data.cursor = eff
                /\ outcome.value.raw.data.cursor = eff
                /\ oneField =>
                    searchBookmarks(Aliased(input), response).value.cursor = eff

\* C5 witness: the token c1 given as cursor alone went upstream and came
\* back as the result's cursor
C5_Witness ==
    /\ SearchReturned
    /\ input.cursor = <<"c", "1">>
    /\ Nullish(input.nextCursor)
    /\ upstreamCalls[1].cursor = <<"c", "1">>
    /\ outcome.value.cursor = <<"c", "1">>

\* t is q without its surrounding whitespace
IsTrimOf(t, q) ==
    \E a, b \in 0..Len(q) :
        /\ a + Len(t) + b = Len(q)
        /\ t = SubSeq(q, a + 1, a + Len(t))
        /\ \A i \in 1..a : q[i] \in Whitespace
        /\ \A i \in (Len(q) - b + 1)..Len(q) : q[i] \in Whitespace
        /\ t # <<>> => t[1] \notin Whitespace /\ t[Len(t)] \notin Whitespace

\* q is the word "bookmarks" in any letter case inside whitespace
SaysBookmarks(q) ==
    \E a, b \in 0..Len(q) :
        /\ a + Len(BOOKMARKS) + b = Len(q)
        /\ \A i \in 1..a : q[i] \in Whitespace
        /\ \A i \in (Len(q) - b + 1)..Len(q) : q[i] \in Whitespace
        /\ \A i \in 1..Len(BOOKMARKS) :
            \E k \in DOMAIN LowerCase :
                /\ LowerCase[k] = BOOKMARKS[i]
                /\ q[a + i] \in {LowerCase[k], UpperCase[k]}

\* C6 as stated: the query sent upstream is "*" exactly when the submitted
\* query, trimmed and lowercased, equals "bookmarks"; every other query goes
\* upstream trimmed and otherwise unchanged.
C6_WildcardExactlyForBookmarks ==
    (Called /\ input.op = "search") =>
        LET sent == upstreamCalls[1].q
        IN  /\ sent = WILDCARD <=> SaysBookmarks(input.query)
            /\ ~SaysBookmarks(input.query) => IsTrimOf(sent, input.query)

\* C6 as amended: the query sent upstream is "*" whenever the submitted
\* query, trimmed and lowercased, equals "bookmarks"; every other query goes
\* upstream trimmed and otherwise unchanged, so it is "*" also when the
\* submitted text itself trims to "*".
C6_WildcardForBookmarksElseTrimmed ==
    (Called /\ input.op = "search") =>
        LET sent == upstreamCalls[1].q
        IN  /\ SaysBookmarks(input.query) => sent = WILDCARD
            /\ ~SaysBookmarks(input.query) => IsTrimOf(sent, input.query)
            /\ sent = WILDCARD =>
                SaysBookmarks(input.query) \/ IsTrimOf(WILDCARD, input.query)

\* C6 witness: " Bookmarks" went upstream as "*"
C6_Witness ==
    /\ Called
    /\ input.op = "search"
    /\ input.query = <<" ", "B", "o", "o", "k", "m", "a", "r", "k", "s">>
    /\ upstreamCalls[1].q = WILDCARD

\* the characters Markdown gives a meaning to
MarkdownSignificant ==
    {"\\", GRAVE, "*", "_", "{", "}", "[", "]", "(", ")", "#", "+", ".",
     "!", "|", ">", "~", "-"}

\* e is r with a backslash before every Markdown-significant character and
\* nothing else changed
RECURSIVE IsEscapeOf(_, _)
IsEscapeOf(e, r) ==
    IF r = <<>> THEN e = <<>>
    ELSE IF Head(r) \in MarkdownSignificant
    THEN /\ Len(e) >= 2
         /\ e[1] = "\\"
         /\ e[2] = Head(r)
         /\ IsEscapeOf(SubSeq(e, 3, Len(e)), Tail(r))
    ELSE /\ Len(e) >= 1
         /\ e[1] = Head(r)
         /\ IsEscapeOf(Tail(e), Tail(r))

\* the same for a field that may be undefined or null
IsOptionalEscapeOf(e, r) ==
    IF Nullish(r) THEN e = r ELSE ~Nullish(e) /\ IsEscapeOf(e, r)

\* the free-text fields of a bookmark summary
SummaryTextFields ==
    {"title", "summary", "note", "taggingStatus", "summarizationStatus",
     "url", "description", "author", "publisher", "sourceUrl", "assetId",
     "assetType"}

\* C7: in every SearchResult the escaped arrays (bookmarks, items, results,
\* data.items) and the raw mirror (raw.items) have the same length and
\* order, and element i of the escaped array is element i of the raw mirror
\* with a backslash before every Markdown-significant character of its
\* free-text fields, while the raw element holds the exact upstream value.
C7_EscapedMirrorsRaw ==
    SearchReturned =>
        LET r == outcome.value
            page == response.data.value.bookmarks
            raw == r.raw.items
        IN  /\ r.bookmarks = r.items
            /\ r.results = r.items
            /\ r.data.items = r.items
            /\ r.raw.data.items = raw
            /\ Len(r.items) = Len(raw)
            /\ \A i \in 1..Len(raw) :
                /\ r.items[i].id = raw[i].id
                /\ r.items[i].createdAt = raw[i].createdAt
                /\ \A f \in SummaryTextFields :
                    IsOptionalEscapeOf(r.items[i][f], raw[i][f])
                /\ Len(r.items[i].tags) = Len(raw[i].tags)
                /\ \A t \in 1..Len(raw[i].tags) :
                    IsEscapeOf(r.items[i].tags[t], raw[i].tags[t])
                /\ \E j \in 1..Len(page) :
                    /\ page[j].id = raw[i].id
                    /\ raw[i].summary = page[j].summary
                    /\ raw[i].note = page[j].note
                    /\ raw[i].title =
                        (IF ~Nullish(page[j].title) THEN page[j].title
                         ELSE IF page[j].content.type = <<"link">>
                                 /\ ~Nullish(page[j].content.title)
                         THEN page[j].content.title
                         ELSE NULL)
                    /\ page[j].content.type = <<"link">>
                        => raw[i].url = page[j].content.url
                    /\ raw[i].tags =
                        [t \in 1..Len(page[j].tags) |-> page[j].tags[t].name]

\* C7 witness: the upstream title *bold* is in the raw mirror as it came
\* and in the escaped array with both asterisks escaped
C7_Witness ==
    /\ SearchReturned
    /\ Len(outcome.value.items) >= 1
    /\ response.data.value.bookmarks[1].title
            = <<"*", "b", "o", "l", "d", "*">>
    /\ outcome.value.raw.items[1].title = <<"*", "b", "o", "l", "d", "*">>
    /\ outcome.value.items[1].title
            = <<"\\", "*", "b", "o", "l", "d", "\\", "*">>

\* every Markdown-significant character of s follows an escaping backslash
RECURSIVE ProperlyEscaped(_)
ProperlyEscaped(s) ==
    IF s = <<>> THEN TRUE
    ELSE IF Head(s) = "\\"
    THEN /\ Len(s) >= 2
         /\ s[2] \in MarkdownSignificant
         /\ ProperlyEscaped(SubSeq(s, 3, Len(s)))
    ELSE /\ Head(s) \notin MarkdownSignificant
         /\ ProperlyEscaped(Tail(s))

\* C8: in the text rendering of a SearchResult every piece of text that
\* comes from a bookmark (title, url, tags, summary, note) is Markdown
\* escaped: no Markdown-significant character of it appears without a
\* backslash before it.
C8_TextRenderingEscaped ==
    SearchReturned =>
        \A k \in 1..Len(outcome.value.text) :
            outcome.value.text[k].src = "bookmark"
                => ProperlyEscaped(outcome.value.text[k].chars)

\* the response has no usable payload
PayloadMissing == response.data.kind \in {"undefined", "null"}

\* the response carries an explicit error object
HasErrorObject == response.error.kind = "object"

\* the response carries an error that JavaScript counts as true
HasTruthyError ==
    \/ response.error.kind = "object"
    \/ response.error.kind = "text" /\ response.error.text # <<>>

\* a facade operation has finished on an upstream response
FacadeDone == pc = "done" /\ Called /\ response # NoResponse

\* C9 as stated: for every facade operation a response whose payload is
\* absent or falsy, or which carries an explicit error object, is treated
\* as failed: a ServiceError is thrown and no success result is returned.
C9_FailedOnMissingPayloadOrError ==
    FacadeDone =>
        ((PayloadMissing \/ HasErrorObject) => outcome.kind = "ServiceError")

\* C9 as amended: a response that carries an explicit error object is
\* failed for every operation; the operations that return data fail exactly
\* when the payload is absent or falsy; the membership and tag mutations
\* fail exactly when the response carries an error, so a response with
\* neither payload nor error is their success.
C9_FailureDetectionPerOperation ==
    FacadeDone =>
        /\ outcome.kind \in {"ServiceError", "ok"}
        /\ HasErrorObject => outcome.kind = "ServiceError"
        /\ input.op \in DataOps =>
            (outcome.kind = "ServiceError" <=> PayloadMissing)
        /\ input.op \in MutationOps =>
            (outcome.kind = "ServiceError" <=> HasTruthyError)

\* C9 witness: attaching tags got an error object and threw
C9_Witness ==
    /\ FacadeDone
    /\ input.op = "attachTags"
    /\ PayloadMissing
    /\ HasErrorObject
    /\ outcome.kind = "ServiceError"

\* C10 as stated: a ServiceError thrown by a facade operation carries the
\* HTTP status of the upstream response when upstream supplied one, and 500
\* when it supplied none.
C10_StatusIsUpstreamStatus ==
    (FacadeDone /\ outcome.kind = "ServiceError") =>
        outcome.status =
            (IF response.status = <<>> THEN 500 ELSE response.status[1])

\* the status each operation gives its ServiceError
StatusOfOperation(op) == IF op \in {"get", "content"} THEN 404 ELSE 400

\* C10 as amended: a ServiceError thrown by a facade operation carries the
\* status fixed by the operation, 404 for getBookmark and getBookmarkContent
\* and 400 for every other operation, whatever the upstream status was; its
\* code is the upstream error code when that is a string; its details are
\* the upstream error object when there is one, else the whole response.
C10_StatusFixedPerOperation ==
    (FacadeDone /\ outcome.kind = "ServiceError") =>
        /\ outcome.status = StatusOfOperation(input.op)
        /\ outcome.code =
            (IF HasErrorObject /\ response.error.code \notin {UNDEF, NONSTRING}
             THEN response.error.code ELSE UNDEF)
        /\ IF HasErrorObject
           THEN outcome.details = response.error
           ELSE outcome.details = response

\* C10 witness: upstream answered 401 with code E1 and the search threw
\* status 400 with code E1
C10_Witness ==
    /\ FacadeDone
    /\ input.op = "search"
    /\ response.status = <<401>>
    /\ HasErrorObject
    /\ outcome.kind = "ServiceError"
    /\ outcome.status = 400
    /\ outcome.code = <<"E", "1">>

\* C11: when the upstream getBookmark call returns a falsy payload, the
\* facade's getBookmark throws a ServiceError with status 404, whose message
\* is the upstream error's message when it has one and a default otherwise,
\* and never returns a BookmarkSummary.
C11_GetBookmarkMissingIs404 ==
    (FacadeDone /\ input.op = "get" /\ PayloadMissing) =>
        /\ outcome.kind = "ServiceError"
        /\ outcome.status = 404
        /\ outcome.message =
            (IF HasErrorObject
                /\ response.error.message \notin {UNDEF, NONSTRING}
             THEN response.error.message
             ELSE <<"Failed to load bookmark">>)

\* C11 witness: upstream answered getBookmark with a null payload and no
\* error, and the facade threw 404 with the default message
C11_Witness ==
    /\ FacadeDone
    /\ input.op = "get"
    /\ response.data.kind = "null"
    /\ response.error.kind = "absent"
    /\ outcome.kind = "ServiceError"
    /\ outcome.status = 404
    /\ outcome.message = <<"Failed to load bookmark">>

\* C12: no upstream attach-tags or detach-tags call is ever issued with an
\* empty tag list: a request with no tags is rejected on the HTTP surface
\* and on the tool surface before upstream is called.
C12_NoEmptyTagListUpstream ==
    \A i \in 1..Len(upstreamCalls) :
        upstreamCalls[i].op \in {"attachTags", "detachTags"}
            => upstreamCalls[i].tags # <<>>

\* the upstream client threw a native exception: a failure that is neither
\* a validation error nor a ServiceError
UnexpectedFailure ==
    pc = "done" /\ outcome.kind = "thrown" /\ outcome.error.kind = "Error"

\* the message and the status the caller sees in an error reply
ClientMessage(r) ==
    IF r.kind = "http" THEN r.body.error.message
    ELSE r.structuredContent.error.message
ClientStatus(r) ==
    IF r.kind = "http" THEN <<r.status>>
    ELSE r.structuredContent.error.status

\* the native exceptions the upstream client can throw
NativeErrors == {e \in ThrownValues : e.kind = "Error"}

\* C13: an unexpected failure (a network exception thrown by the upstream
\* client) is shown to the caller with a generic message and a status of
\* 500 on both surfaces: the message the caller sees never is the internal
\* exception's message, and two unexpected failures with different internal
\* messages give the same visible message.
C13_UnexpectedFailureIsGeneric ==
    UnexpectedFailure =>
        /\ reply.kind \in {"http", "toolResult"}
        /\ ClientMessage(reply) # outcome.error.message
        /\ \A other \in NativeErrors :
            ClientMessage(RenderError(surface, other)) = ClientMessage(reply)
        /\ ClientStatus(reply) = <<500>>

\* the HTTP surface answered with an error status
HttpErrorReply == pc = "done" /\ reply.kind = "http" /\ reply.status >= 400

\* C14: every error response of the HTTP surface (invalid JSON, schema
\* validation failure, ServiceError, unexpected failure, unknown route or
\* base-path mismatch) is a JSON body {error: {message, code?, status,
\* details?}} whose error.status equals the HTTP status code of the
\* response, and carries the CORS headers.
C14_HttpErrorBodyShape ==
    HttpErrorReply =>
        /\ reply.cors
        /\ reply.contentType = "application/json"
        /\ "message" \in reply.body.error.keys
        /\ "status" \in reply.body.error.keys
        /\ reply.body.error.keys \subseteq
                {"message", "code", "status", "details"}
        /\ reply.body.error.status = <<reply.status>>

\* a tool handler caught an error, and the error it caught
ToolCaught ==
    pc = "done" /\ surface = "tool" /\ outcome.kind \in {"thrown", "ServiceError"}
CaughtError == IF outcome.kind = "thrown" THEN outcome.error ELSE outcome

\* C15: error normalization (normalizeError / toMcpToolError) is total: for
\* every input shape (falsy value, string, plain object with or without
\* string message and code, native exception, ServiceError) it returns,
\* without throwing, an object with a string message and only the optional
\* keys code, status, details, and the tool result built from it is flagged
\* isError and holds that object as structuredContent.error.
C15_NormalizationTotal ==
    ToolCaught =>
        /\ reply.kind = "toolResult"
        /\ reply.isError
        /\ reply.structuredContent.error = normalizeError(CaughtError)
        /\ "message" \in reply.structuredContent.error.keys
        /\ reply.structuredContent.error.keys \subseteq
                {"message", "code", "status", "details"}
        /\ reply.structuredContent.error.message \notin {UNDEF, NULL, NONSTRING}

\* a facade function was invoked and has finished
Invoked ==
    pc = "done" /\ outcome.kind \in {"ok", "ServiceError", "thrown"}

\* C16: every facade operation issues exactly one upstream call per
\* invocation and never retries: when the call fails the error goes to the
\* surface at once and no second upstream call is made for the request.
C16_OneUpstreamCallNoRetry ==
    /\ Len(upstreamCalls) <= 1
    /\ pc = "awaiting" => Len(upstreamCalls) = 1
    /\ Invoked =>
        /\ Len(upstreamCalls) = 1
        /\ upstreamCalls[1] = UpstreamCallOf(input)
    /\ (pc = "done" /\ ~Invoked) => upstreamCalls = <<>>

\* C16 witness: the one upstream call of a search failed with an error
\* object, the facade threw, and the call is still the only one
C16_Witness ==
    /\ Invoked
    /\ input.op = "search"
    /\ HasErrorObject
    /\ outcome.kind = "ServiceError"
    /\ Len(upstreamCalls) = 1

\* a string that JavaScript counts as true
NonEmptyString(v) == v \notin {UNDEF, NULL, <<>>}

\* the request fits the schema of its HTTP route
FitsRouteSchema(r) ==
    CASE r.op = "search" ->
            /\ r.query # UNDEF
            /\ IF r.limit = <<>> THEN TRUE
               ELSE r.limit[2] = 0 /\ r.limit[1] >= 1 /\ r.limit[1] <= 100
            /\ ~(NonEmptyString(r.nextCursor) /\ NonEmptyString(r.cursor))
      [] r.op = "create" ->
            r.type \in {<<"link">>, <<"text">>} /\ r.content # UNDEF
      [] r.op = "createList" -> r.name # UNDEF /\ r.icon # UNDEF
      [] r.op \in {"attachTags", "detachTags"} ->
            r.bookmarkId # UNDEF /\ r.tags # <<>>
      [] r.op = "badJson" -> FALSE
      [] OTHER -> TRUE

\* a request for one of the routes that call a facade function, over HTTP
HttpRouteRequest ==
    /\ pc \in {"received", "awaiting", "done"}
    /\ surface = "http"
    /\ request.op \in Ops \cup {"badJson"}

\* C17: on the HTTP surface schema validation comes before the facade call:
\* for every route, when the body or the path parameters fail the schema,
\* or the body is not JSON, the response is a 400 and no upstream call is
\* issued; an upstream call is made only after validation succeeded.
C17_HttpValidationFirst ==
    HttpRouteRequest =>
        /\ Called => FitsRouteSchema(request)
        /\ (pc = "done" /\ ~FitsRouteSchema(request)) =>
            /\ reply.kind = "http"
            /\ reply.status = 400
            /\ upstreamCalls = <<>>
            /\ outcome.kind = "ValidationError"
        /\ (pc \in {"awaiting", "done"} /\ FitsRouteSchema(request)) => Called

\* C17 witness: a search over HTTP asking for 101 results was answered 400
\* with no upstream call
C17_Witness ==
    /\ pc = "done"
    /\ surface = "http"
    /\ request.op = "search"
    /\ request.limit = <<101, 0>>
    /\ reply.kind = "http"
    /\ reply.status = 400
    /\ upstreamCalls = <<>>

\* C18: concurrent requests do not interfere: for every interleaving of two
\* facade calls in flight, each suspended at its upstream await, each call's
\* result or error is the one it gives when run alone against the same
\* upstream response; the deduplication sets of one search never affect
\* another search.
C18_ConcurrentCallsIndependent ==
    \A i \in Callers :
        /\ flights[i].pc = "done" =>
            flights[i].outcome
                = FacadeOutcome(flights[i].input, flights[i].response)
        /\ flights[i].pc \in {"awaiting", "done"} =>
            \E k \in 1..Len(upstreamCalls) :
                upstreamCalls[k] = UpstreamCallOf(flights[i].input)
        /\ Len(upstreamCalls)
                = Cardinality({j \in Callers : flights[j].pc # "idle"})

\* the ids of the items a finished search returned
ReturnedIds(f) ==
    {f.outcome.value.items[k].id : k \in 1..Len(f.outcome.value.items)}

\* C18 witness: two searches were in flight together, both upstream pages
\* held bookmark A, and each search returned A
C18_Witness ==
    \A i \in Callers :
        /\ flights[i].pc = "done"
        /\ flights[i].input.op = "search"
        /\ flights[i].outcome.kind = "ok"
        /\ flights[i].response.data.value.bookmarks = <<BmA1, BmB>>
        /\ ReturnedIds(flights[i]) = {<<"A">>, <<"B">>}

\* C19: in every search result the alias views never diverge: bookmarks,
\* items, results and data.items are equal lists; raw.bookmarks, raw.items,
\* raw.results and raw.data.items are equal lists; nextCursor, cursor and
\* hasMore have the same values at the top level, in data and in raw.data.
C19_AliasViewsEqual ==
    SearchReturned =>
        LET r == outcome.value
        IN  /\ r.items = r.bookmarks
            /\ r.results = r.bookmarks
            /\ r.data.items = r.bookmarks
            /\ r.raw.items = r.raw.bookmarks
            /\ r.raw.results = r.raw.bookmarks
            /\ r.raw.data.items = r.raw.bookmarks
            /\ r.data.nextCursor = r.nextCursor
            /\ r.raw.data.nextCursor = r.nextCursor
            /\ r.data.cursor = r.cursor
            /\ r.raw.data.cursor = r.cursor
            /\ r.data.hasMore = r.hasMore
            /\ r.raw.data.hasMore = r.hasMore

\* C19 witness: a last page of two bookmarks, reached with cursor c1, shows
\* the two bookmarks, the cursor and hasMore = false in every view
C19_Witness ==
    /\ SearchReturned
    /\ Len(outcome.value.bookmarks) = 2
    /\ Len(outcome.value.data.items) = 2
    /\ Len(outcome.value.raw.data.items) = 2
    /\ outcome.value.cursor = <<"c", "1">>
    /\ outcome.value.raw.data.cursor = <<"c", "1">>
    /\ outcome.value.hasMore = FALSE
    /\ outcome.value.data.hasMore = FALSE

\* a facade that answers with one shaped bookmark has returned it
SummaryReturned ==
    /\ FacadeDone
    /\ input.op \in {"get", "create"}
    /\ outcome.kind = "ok"

SummaryTypes == {<<"link">>, <<"text">>, <<"asset">>, <<"unknown">>}

TypeSpecificFields ==
    {"url", "description", "author", "publisher", "sourceUrl", "assetId",
     "assetType"}

\* the optional fields of the summary that are not undefined
PopulatedFields(s) == {f \in TypeSpecificFields : s[f] # UNDEF}

\* the optional fields each type carries
FieldsOfType(type) ==
    CASE type = <<"link">> -> {"url", "description", "author", "publisher"}
      [] type = <<"text">> -> {"sourceUrl"}
      [] type = <<"asset">> -> {"assetId", "assetType", "sourceUrl"}
      [] OTHER -> {}

\* C20: toBookmarkSummary returns a summary whose type is one of link, text,
\* asset and unknown and whose populated optional fields are those of its
\* type (link: url, description, author, publisher; text: sourceUrl; asset:
\* assetId, assetType, sourceUrl); an upstream content type outside link,
\* text and asset gives type unknown with no type-specific field, and the
\* shaper always returns.
C20_TypeDeterminesFields ==
    SummaryReturned =>
        LET s == outcome.value
            upstreamType == response.data.value.content.type
        IN  /\ s.type \in SummaryTypes
            /\ PopulatedFields(s) = FieldsOfType(s.type)
            /\ upstreamType \notin ContentTypes => s.type = <<"unknown">>

\* the default the HTTP interface description states for limit
DocumentedHttpDefaultLimit == 10

\* a search request that gave no limit has reached upstream
SearchWithoutLimitCalled ==
    /\ request.op = "search"
    /\ request.limit = NoLimit
    /\ Called

\* C21: when a search request omits limit, the upstream call carries limit
\* 100 if the request came through the tool surface and limit 10 if it came
\* through the HTTP surface.
C21_DefaultLimitPerSurface ==
    SearchWithoutLimitCalled =>
        upstreamCalls[1].limit =
            (IF surface = "tool" THEN Num(100)
             ELSE Num(DocumentedHttpDefaultLimit))

\* the text that follows the label in the rendering, <<>> if the label is
\* not there
RenderedAfter(text, label) ==
    IF \E k \in 1..(Len(text) - 1) : text[k] = Lit(label)
    THEN text[(CHOOSE k \in 1..(Len(text) - 1) : text[k] = Lit(label)) + 1].chars
    ELSE <<>>

\* the trimmed text t is shown as rendered under the cap: unchanged when it
\* fits, otherwise a prefix of at most cap characters that does not end in
\* whitespace, followed by the ellipsis
ShownUnderCap(rendered, t, cap) ==
    IF Len(t) <= cap THEN rendered = t
    ELSE LET n == Len(rendered) - 1
         IN  /\ n >= 1
             /\ n <= cap
             /\ rendered[n + 1] = ELLIPSIS
             /\ SubSeq(rendered, 1, n) = SubSeq(t, 1, n)
             /\ rendered[n] \notin Whitespace

\* a search has returned a page of one record
OneRecordReturned ==
    SearchReturned /\ Len(response.data.value.bookmarks) = 1

\* C22: in the search-result text a summary whose trimmed length exceeds 400
\* is shown as at most 400 characters followed by the ellipsis, with no
\* whitespace just before the ellipsis, and a summary of at most 400
\* characters is shown unchanged; the note obeys the same rule with cap 200.
C22_TruncationUnderCap ==
    OneRecordReturned =>
        LET b == response.data.value.bookmarks[1]
            text == outcome.value.text
        IN  /\ ~Nullish(b.summary) =>
                ShownUnderCap(RenderedAfter(text, "   Summary: "),
                              Trim(b.summary), 400)
            /\ ~Nullish(b.note) =>
                ShownUnderCap(RenderedAfter(text, "   Note: "),
                              Trim(b.note), 200)

\* C22 witness: a summary of more than 400 characters whose cut falls in a
\* run of spaces is shown as fewer than 399 characters and the ellipsis, and
\* the note of more than 200 characters likewise
C22_Witness ==
    /\ OneRecordReturned
    /\ Len(Trim(response.data.value.bookmarks[1].summary)) > 400
    /\ Len(Trim(response.data.value.bookmarks[1].note)) > 200
    /\ LET s == RenderedAfter(outcome.value.text, "   Summary: ")
           n == RenderedAfter(outcome.value.text, "   Note: ")
       IN  /\ Len(s) < 399
           /\ s[Len(s)] = ELLIPSIS
           /\ s[Len(s) - 1] = "a"
           /\ Len(n) < 199
           /\ n[Len(n)] = ELLIPSIS

\* C23: in the shared delete queue at most one delete mutation is in flight
\* at any time: whatever the interleaving of enqueueDeleteTask calls,
\* completions, mounts and unmounts, the processor is never invoked while
\* an earlier invocation has not finished, and the processing flag is set
\* for as long as one is in flight.
C23_OneDeleteInFlight ==
    /\ Cardinality(inFlight) <= 1
    /\ inFlight # {} => deleteQueueProcessing

\* C23 witness: the second delete is in flight, handed over by a hook that
\* has since unmounted, while a third waits in the queue
C23_Witness ==
    /\ Len(handed) = 2
    /\ Len(deleteQueue) = 1
    /\ \E inv \in inFlight : inv.phase = "pending" /\ inv.by = NoHook
    /\ deleteQueueProcessing

\* the task was accepted by enqueueDeleteTask
Accepted(t) == Len(tasks) >= t /\ tasks[t].result = "enqueued"

\* the task has been handed to the processor and its resolve or reject
\* callback has been called
Completed(t) ==
    /\ \E i \in 1..Len(handed) : handed[i] = t
    /\ tasks[t].callback # "none"

\* C24: every task accepted by enqueueDeleteTask is eventually handed to the
\* processor, exactly once, and its resolve or reject callback is called,
\* provided every processor invocation settles; no accepted task stays
\* queued forever, also when the hook that registered the processor
\* unmounts while a delete is in flight.
C24_EveryAcceptedTaskCompletes ==
    /\ [](\A i, j \in 1..Len(handed) : handed[i] = handed[j] => i = j)
    /\ \A t \in 1..MaxTasks : Accepted(t) ~> Completed(t)

\* the queued delete at position j was enqueued with dedupeByBookmarkId on
\* and an earlier delete of the same bookmark is queued or in flight
SecondDeleteOfBookmark(j) ==
    /\ deleteQueue[j].dedupeKey # UNDEF
    /\ \/ \E i \in 1..(j - 1) :
            deleteQueue[i].bookmarkId = deleteQueue[j].bookmarkId
       \/ \E inv \in inFlight :
            /\ inv.phase = "pending"
            /\ inv.bookmarkId = deleteQueue[j].bookmarkId

\* the step is an enqueueDeleteTask call that was refused
EnqueueRefused ==
    /\ Len(tasks') = Len(tasks) + 1
    /\ tasks'[Len(tasks')].result # "enqueued"

\* C25: whenever enqueueDeleteTask is called with dedupeByBookmarkId on for
\* a bookmarkId that has a delete queued or in flight, the call is refused
\* with the already-queued error, onDuplicate is invoked, and the queue and
\* the processing flag are left as they were; hence no bookmarkId enqueued
\* with dedupe on is ever present a second time among the queued and
\* in-flight deletes.
C25_DuplicateDeleteRefused ==
    /\ [](\A t \in 1..Len(tasks) :
            tasks[t].deleteWaiting =>
                tasks[t].result = "duplicate" /\ tasks[t].onDuplicate)
    /\ [][EnqueueRefused =>
            /\ deleteQueue' = deleteQueue
            /\ deleteQueueProcessing' = deleteQueueProcessing]_vars
    /\ [](\A j \in 1..Len(deleteQueue) : ~SecondDeleteOfBookmark(j))

RECURSIVE AcceptedFrom(_)
AcceptedFrom(t) ==
    IF t > Len(tasks) THEN <<>>
    ELSE (IF tasks[t].result = "enqueued" THEN <<t>> ELSE <<>>)
         \o AcceptedFrom(t + 1)

\* C27: the delete queue is FIFO: the accepted tasks are handed to the
\* processor in the order in which enqueueDeleteTask accepted them, whether
\* the earlier deletes succeed or fail; the queue holds the accepted tasks
\* not yet handed over, in the same order.
C27_HandedInAcceptedOrder ==
    handed \o [i \in 1..Len(deleteQueue) |-> deleteQueue[i].task]
        = AcceptedFrom(1)

\* C27 witness: three tasks were accepted, the first delete failed, the
\* second succeeded and the third has been handed over after them
C27_Witness ==
    /\ handed = <<1, 2, 3>>
    /\ tasks[1].callback = "reject"
    /\ tasks[2].callback = "resolve"
    /\ deleteQueue = <<>>

\* the step issues the bulk invalidation of the bookmark-list, search and
\* list-stats queries
InvalidationIssued == bulkInvalidations'.issued > bulkInvalidations.issued

\* the published state shows an idle, empty queue, and no delete is queued
\* or in flight
Drained ==
    /\ currentDeleteQueueState = DeleteQueueState(0, FALSE)
    /\ deleteQueue = <<>>
    /\ inFlight = {}
    /\ ~deleteQueueProcessing

\* the hook instance whose effect issued the invalidation in the step
Issuer(h) ==
    /\ hooks[h].mounted
    /\ hooks[h].pendingInvalidations
    /\ ~hooks'[h].pendingInvalidations

HeaderSaysNoMorePages(text) ==
    \E k \in 1..(Len(text) - 1) :
        text[k] = Lit("- Next cursor: ") /\ text[k + 1] = Lit("no more pages")

\* the header's cursor line shows a quoted cursor token
HeaderShowsCursor(text) ==
    \E k \in 1..(Len(text) - 2) :
        /\ text[k] = Lit("- Next cursor: ")
        /\ text[k + 1] = Lit("'")
        /\ text[k + 2].src = "cursor"

\* C29: in every search result the header's cursor line agrees with hasMore,
\* whatever nextCursor upstream gave: it reads "no more pages" exactly when
\* hasMore is false and shows the cursor token exactly when hasMore is true.
C29_HeaderAgreesWithHasMore ==
    SearchReturned =>
        LET r == outcome.value
        IN  /\ HeaderSaysNoMorePages(r.text) <=> (r.hasMore = FALSE)
            /\ HeaderShowsCursor(r.text) <=> (r.hasMore = TRUE)
=============================================================================
